---- MODULE Spec2Model ----
(***************************************************************************)
(* Library management system: the storage backends (In-Memory, File,       *)
(* Caching) and the loan lifecycle (borrow, return, overdue scan) built on *)
(* them.                                                                   *)
(*                                                                         *)
(* Text is modelled as a sequence of tokens.  A token is one of the four   *)
(* characters the CSV layer treats specially (comma, double quote and the  *)
(* two placeholder characters) or a chunk of ordinary characters.          *)
(* Instants are integers counting sub-second ticks since local midnight of *)
(* day 0; the local time zone has no DST change inside the modelled days.  *)
(***************************************************************************)
EXTENDS Integers, Sequences, FiniteSets, TLC

(* ------------------------------ bounds --------------------------------- *)
\* ticks (sub-second resolution of system_clock) in one second
SubPerSec == 2
\* seconds in one (scaled-down) day
SecPerDay == 2
\* the clock never passes this tick
MaxClock == 8
\* loans one LoanService instance creates at most
MaxLoans == 2
\* default_loan_duration_days handed to the LoanService constructor
LoanDays == 1
\* the latest instant of a loan record a contract client saves
MaxSaved == 5

TicksPerDay == SecPerDay * SubPerSec

(* ------------------------------ text ----------------------------------- *)
COMMA == ","
QUOTE == "\""
COMMA_PLACEHOLDER == "RS"
QUOTE_PLACEHOLDER == "US"

Digits == <<"0", "1", "2", "3", "4", "5", "6", "7", "8", "9">>

\* std::to_string of a small non-negative int
to_string(n) == <<Digits[n + 1]>>

IsNumber(s) == Len(s) = 1 /\ \E k \in 1..Len(Digits) : Digits[k] = s[1]

\* std::stoi of a text produced by to_string
stoi(s) == (CHOOSE k \in 1..Len(Digits) : Digits[k] = s[1]) - 1

\* std::replace(begin, end, from, to)
Replace(s, from, to) == [k \in 1..Len(s) |-> IF s[k] = from THEN to ELSE s[k]]

\* a variant of escapeCsvField that leaves the commas of the field
escapeQuotesOnly(field) == Replace(field, QUOTE, QUOTE_PLACEHOLDER)

escapeCsvField(field) ==
  Replace(Replace(field, QUOTE, QUOTE_PLACEHOLDER), COMMA, COMMA_PLACEHOLDER)

unescapeCsvField(field) ==
  Replace(Replace(field, QUOTE_PLACEHOLDER, QUOTE), COMMA_PLACEHOLDER, COMMA)

\* position of the first comma of s at or after k, 0 when there is none
RECURSIVE FirstComma(_, _)
FirstComma(s, k) ==
  IF k > Len(s) THEN 0 ELSE IF s[k] = COMMA THEN k ELSE FirstComma(s, k + 1)

\* while (std::getline(ss, field, ',')): the extraction that finds the
\* stream already at its end fails, so text ending in a comma yields no
\* empty last field.
RECURSIVE GetlineFields(_)
GetlineFields(s) ==
  IF s = <<>> THEN <<>>
  ELSE LET c == FirstComma(s, 1) IN
       IF c = 0 THEN <<s>>
       ELSE <<SubSeq(s, 1, c - 1)>> \o GetlineFields(SubSeq(s, c + 1, Len(s)))

\* the lines of a file -> records of unescaped fields; empty lines are skipped
readCsvFile(lines) ==
  LET kept == SelectSeq(lines, LAMBDA l : l # <<>>) IN
  [k \in 1..Len(kept) |->
     LET fs == GetlineFields(kept[k]) IN
     [j \in 1..Len(fs) |-> unescapeCsvField(fs[j])]]

RECURSIVE JoinFields(_)
JoinFields(rec) ==
  IF rec = <<>> THEN <<>>
  ELSE IF Len(rec) = 1 THEN escapeCsvField(rec[1])
  ELSE escapeCsvField(rec[1]) \o <<COMMA>> \o JoinFields(Tail(rec))

\* records -> the lines written to the truncated file
writeCsvFile(data) == [k \in 1..Len(data) |-> JoinFields(data[k])]

(* ------------------------------ dates ---------------------------------- *)
\* std::nullopt of an optional<Date>
NoDate == -1

DayOf(tp) == tp \div TicksPerDay
SecOfDay(tp) == (tp % TicksPerDay) \div SubPerSec

\* "%Y-%m-%d %H:%M:%S" of the local time of tp: to_time_t drops the
\* sub-second part
formatDateTime(tp) == to_string(DayOf(tp)) \o <<" ">> \o to_string(SecOfDay(tp))

\* the instant a parsed "%Y-%m-%d %H:%M:%S" text is turned into: the parsed
\* hour, minute and second are overwritten with 0 before mktime
parseDateMidnight(day, sec) == day * TicksPerDay

\* std::get_time with "%Y-%m-%d %H:%M:%S"; NoDate when the text does not match
parseDate(text) ==
  IF Len(text) = 3 /\ IsNumber(<<text[1]>>) /\ text[2] = " " /\ IsNumber(<<text[3]>>)
  THEN parseDateMidnight(stoi(<<text[1]>>), stoi(<<text[3]>>))
  ELSE NoDate

\* a variant of addDays that adds the days as seconds
addSeconds(tp, days) == tp + days * SubPerSec

addDays(tp, days) == tp + days * TicksPerDay

\* DateTimeUtils::today(): local midnight of the current day
TodayOf(now) == DayOf(now) * TicksPerDay

(* --------------------------- domain values ----------------------------- *)
\* optional<T> is a sequence of length 0 (nullopt) or 1
None == <<>>
Some(x) == <<x>>

Statuses == <<"AVAILABLE", "BORROWED", "RESERVED", "MAINTENANCE">>

\* static_cast<int>(status)
StatusInt(s) == (CHOOSE k \in 1..Len(Statuses) : Statuses[k] = s) - 1

\* static_cast<AvailabilityStatus>(n)
StatusOf(n) == IF n + 1 \in 1..Len(Statuses) THEN Statuses[n + 1] ELSE "OTHER"

\* a null shared_ptr<Author>
NoAuthor == [id |-> <<>>, name |-> <<>>]

\* LoanRecord::LoanRecord accepts its arguments
LoanRecordValid(id, item, user, loan, due) ==
  id # <<>> /\ item # <<>> /\ user # <<>> /\ due >= loan

LoanRecord(id, item, user, loan, due) ==
  [id |-> id, item |-> item, user |-> user, loan |-> loan, due |-> due,
   ret |-> NoDate]

\* a variant of the test of setReturnDate that accepts every date
ReturnDateAnyValid(rec, return_date) == TRUE

\* LoanRecord::setReturnDate accepts return_date
ReturnDateValid(rec, return_date) == return_date >= rec.loan

setReturnDate(rec, return_date) == [rec EXCEPT !.ret = return_date]

\* LoanRecord::setDueDate accepts due_date
DueDateValid(rec, due_date) == ~(due_date < rec.loan)

setDueDate(rec, due_date) == [rec EXCEPT !.due = due_date]

\* Book::Book accepts its arguments
BookValid(id, title, author, isbn, year) ==
  id # <<>> /\ title # <<>> /\ author # NoAuthor /\ isbn # <<>> /\ year > 0

Book(id, title, author, isbn, year, status) ==
  [id |-> id, title |-> title, author |-> author, isbn |-> isbn,
   year |-> year, status |-> status]

(* -------------------------- In-Memory backend -------------------------- *)
\* m[key] = value on a std::map
MapPut(m, key, value) ==
  [k \in DOMAIN m \cup {key} |-> IF k = key THEN value ELSE m[k]]

\* a variant of erase that removes nothing
MapEraseNothing(m, key) == m

\* m.erase(key)
MapErase(m, key) == [k \in DOMAIN m \ {key} |-> m[k]]

\* m.find(key) as an optional
MapFind(m, key) == IF key \in DOMAIN m THEN Some(m[key]) ELSE None

\* the order of std::map<EntityId, LoanRecord> on the ids "loan_<n>", n < 10
LoanIdLess(a, b) == stoi(<<a[Len(a)]>>) < stoi(<<b[Len(b)]>>)

\* the values of the loan map in key order
RECURSIVE InKeyOrder(_, _)
InKeyOrder(m, keys) ==
  IF keys = {} THEN <<>>
  ELSE LET least == CHOOSE k \in keys : \A o \in keys \ {k} : LoanIdLess(k, o) IN
       <<m[least]>> \o InKeyOrder(m, keys \ {least})

Mem_loadAllLoanRecords(m_loan_records) ==
  InKeyOrder(m_loan_records, DOMAIN m_loan_records)

(* ---------------------------- File backend ----------------------------- *)
\* index of the first record whose first field is id, 0 when there is none
RECURSIVE FirstRowWithId(_, _, _)
FirstRowWithId(rows, id, k) ==
  IF k > Len(rows) THEN 0
  ELSE IF rows[k] # <<>> /\ rows[k][1] = id THEN k
  ELSE FirstRowWithId(rows, id, k + 1)

\* the save pattern of items and loan records: replace the first record with
\* this id by new_fields, or append new_fields
UpsertRow(rows, id, new_fields) ==
  LET k == FirstRowWithId(rows, id, 1) IN
  IF k = 0 THEN Append(rows, new_fields) ELSE [rows EXCEPT ![k] = new_fields]

\* the save pattern of authors and users: record_fields[1] = name on the
\* first record with this id, or append {id, name}
UpsertName(rows, id, name) ==
  LET k == FirstRowWithId(rows, id, 1) IN
  IF k = 0 THEN Append(rows, <<id, name>>)
  ELSE IF Len(rows[k]) >= 2 THEN [rows EXCEPT ![k][2] = name]
  ELSE [rows EXCEPT ![k] = <<id, name>>]

\* a variant of the delete pattern that also drops the first record
RemoveRowsAndFirst(rows, id) ==
  IF rows = <<>> THEN rows
  ELSE SelectSeq(Tail(rows), LAMBDA r : ~(r # <<>> /\ r[1] = id))

\* the delete pattern: remove every record whose first field is id
RemoveRows(rows, id) == SelectSeq(rows, LAMBDA r : ~(r # <<>> /\ r[1] = id))

File_saveAuthor(lines, author) ==
  writeCsvFile(UpsertName(readCsvFile(lines), author.id, author.name))

File_loadAuthor(lines, author_id) ==
  LET rows == SelectSeq(readCsvFile(lines),
                        LAMBDA f : Len(f) = 2 /\ f[1] = author_id) IN
  IF rows = <<>> THEN None ELSE Some([id |-> rows[1][1], name |-> rows[1][2]])

File_saveUser(lines, user_id, name) ==
  writeCsvFile(UpsertName(readCsvFile(lines), user_id, name))

\* a variant of loadUser that forgets to compare the id
File_loadFirstUser(lines, user_id) ==
  LET rows == SelectSeq(readCsvFile(lines),
                        LAMBDA f : Len(f) = 2 /\ f[1] # <<>> /\ f[2] # <<>>) IN
  IF rows = <<>> THEN None ELSE Some(rows[1][2])

\* the name of the first well-formed user record with this id
File_loadUser(lines, user_id) ==
  LET rows == SelectSeq(readCsvFile(lines),
                        LAMBDA f : Len(f) = 2 /\ f[1] = user_id
                                   /\ f[1] # <<>> /\ f[2] # <<>>) IN
  IF rows = <<>> THEN None ELSE Some(rows[1][2])

BookFields(book) ==
  <<book.id, <<"Book">>, book.title, book.author.id, book.isbn,
    to_string(book.year), to_string(StatusInt(book.status))>>

File_saveLibraryItem(lines, book) ==
  writeCsvFile(UpsertRow(readCsvFile(lines), book.id, BookFields(book)))

\* the try block of loadLibraryItem: the Book of a 7-field record, nullopt
\* when std::stoi or the Book constructor throws
BookOfFields(fields, authors_lines) ==
  LET found == IF fields[4] # <<>> THEN File_loadAuthor(authors_lines, fields[4])
               ELSE None
      author == IF found = None THEN NoAuthor ELSE found[1]
  IN IF IsNumber(fields[6]) /\ IsNumber(fields[7])
        /\ BookValid(fields[1], fields[3], author, fields[5], stoi(fields[6]))
     THEN Some(Book(fields[1], fields[3], author, fields[5], stoi(fields[6]),
                    StatusOf(stoi(fields[7]))))
     ELSE None

File_loadLibraryItem(items_lines, authors_lines, item_id) ==
  LET rows == SelectSeq(readCsvFile(items_lines),
                        LAMBDA f : Len(f) = 7 /\ f[1] = item_id /\ f[2] = <<"Book">>) IN
  IF rows = <<>> THEN None ELSE BookOfFields(rows[1], authors_lines)

LoanFields(record) ==
  <<record.id, record.item, record.user, formatDateTime(record.loan),
    formatDateTime(record.due),
    IF record.ret # NoDate THEN formatDateTime(record.ret) ELSE <<>> >>

\* a variant of the save of a loan record that always adds a record
File_appendLoanRecord(lines, record) ==
  writeCsvFile(Append(readCsvFile(lines), LoanFields(record)))

\* saveLoanRecord is updateLoanRecord
File_updateLoanRecord(lines, record) ==
  writeCsvFile(UpsertRow(readCsvFile(lines), record.id, LoanFields(record)))

\* the try block of the loan loaders: the LoanRecord of one record, nothing
\* when the field count is not 6, a date does not parse or a constructor or
\* setter throws
LoanOfFields(fields) ==
  IF Len(fields) # 6 THEN None
  ELSE LET loan_date == parseDate(fields[4])
           due_date == parseDate(fields[5])
       IN IF loan_date = NoDate \/ due_date = NoDate THEN None
          ELSE IF ~LoanRecordValid(fields[1], fields[2], fields[3], loan_date, due_date)
          THEN None
          ELSE LET loan == LoanRecord(fields[1], fields[2], fields[3], loan_date, due_date)
                   return_date == IF fields[6] # <<>> THEN parseDate(fields[6]) ELSE NoDate
               IN IF return_date = NoDate THEN Some(loan)
                  ELSE IF ReturnDateValid(loan, return_date)
                  THEN Some(setReturnDate(loan, return_date))
                  ELSE None

RECURSIVE LoansOfRows(_)
LoansOfRows(rows) ==
  IF rows = <<>> THEN <<>> ELSE LoanOfFields(Head(rows)) \o LoansOfRows(Tail(rows))

File_loadAllLoanRecords(lines) == LoansOfRows(readCsvFile(lines))

File_loadLoanRecord(lines, record_id) ==
  LET loans == LoansOfRows(SelectSeq(readCsvFile(lines),
                                     LAMBDA f : Len(f) = 6 /\ f[1] = record_id)) IN
  IF loans = <<>> THEN None ELSE Some(loans[1])

File_deleteLoanRecord(lines, record_id) ==
  writeCsvFile(RemoveRows(readCsvFile(lines), record_id))

(* ------------------------- IPersistenceService ------------------------- *)
\* A store st has st.mem, the maps of InMemoryPersistenceService, and
\* st.file, the lines of the four csv files.  The File backend works on
\* st.file; the In-Memory backend works on st.mem; the Caching backend
\* delegates every contract operation to its memory store.
EmptyStore ==
  [mem |-> [authors |-> <<>>, users |-> <<>>, items |-> <<>>, loans |-> <<>>],
   file |-> [authors |-> <<>>, users |-> <<>>, items |-> <<>>, loans |-> <<>>]]

loadAuthor(b, st, author_id) ==
  IF b = "File" THEN File_loadAuthor(st.file.authors, author_id)
  ELSE MapFind(st.mem.authors, author_id)

saveAuthor(b, st, author) ==
  IF b = "File" THEN [st EXCEPT !.file.authors = File_saveAuthor(@, author)]
  ELSE [st EXCEPT !.mem.authors = MapPut(@, author.id, author)]

loadUser(b, st, user_id) ==
  IF b = "File" THEN File_loadUser(st.file.users, user_id)
  ELSE MapFind(st.mem.users, user_id)

\* a variant of saveUser in which the Caching backend writes through
saveUserWriteThrough(b, st, user_id, name) ==
  IF b = "File" THEN [st EXCEPT !.file.users = File_saveUser(@, user_id, name)]
  ELSE IF b = "Caching"
  THEN [st EXCEPT !.mem.users = MapPut(@, user_id, name),
                  !.file.users = File_saveUser(@, user_id, name)]
  ELSE [st EXCEPT !.mem.users = MapPut(@, user_id, name)]

saveUser(b, st, user_id, name) ==
  IF b = "File" THEN [st EXCEPT !.file.users = File_saveUser(@, user_id, name)]
  ELSE [st EXCEPT !.mem.users = MapPut(@, user_id, name)]

loadLibraryItem(b, st, item_id) ==
  IF b = "File" THEN File_loadLibraryItem(st.file.items, st.file.authors, item_id)
  ELSE MapFind(st.mem.items, item_id)

saveLibraryItem(b, st, item) ==
  IF b = "File" THEN [st EXCEPT !.file.items = File_saveLibraryItem(@, item)]
  ELSE [st EXCEPT !.mem.items = MapPut(@, item.id, item)]

saveLoanRecord(b, st, record) ==
  IF b = "File" THEN [st EXCEPT !.file.loans = File_updateLoanRecord(@, record)]
  ELSE [st EXCEPT !.mem.loans = MapPut(@, record.id, record)]

updateLoanRecord(b, st, record) ==
  IF b = "File" THEN [st EXCEPT !.file.loans = File_updateLoanRecord(@, record)]
  ELSE [st EXCEPT !.mem.loans = MapPut(@, record.id, record)]

deleteLoanRecord(b, st, record_id) ==
  IF b = "File" THEN [st EXCEPT !.file.loans = File_deleteLoanRecord(@, record_id)]
  ELSE [st EXCEPT !.mem.loans = MapErase(@, record_id)]

loadLoanRecord(b, st, record_id) ==
  IF b = "File" THEN File_loadLoanRecord(st.file.loans, record_id)
  ELSE MapFind(st.mem.loans, record_id)

loadAllLoanRecords(b, st) ==
  IF b = "File" THEN File_loadAllLoanRecords(st.file.loans)
  ELSE Mem_loadAllLoanRecords(st.mem.loans)

loadLoanRecordsByUserId(b, st, user_id) ==
  SelectSeq(loadAllLoanRecords(b, st), LAMBDA r : r.user = user_id)

loadLoanRecordsByItemId(b, st, item_id) ==
  SelectSeq(loadAllLoanRecords(b, st), LAMBDA r : r.item = item_id)

(* ------------------------------ services ------------------------------- *)
\* the outcome of a service call: the store and id counter it leaves, "ok"
\* or the exception thrown, the value returned, the notifications sent
Outcome(st, counter, res, ret, sent) ==
  [st |-> st, counter |-> counter, res |-> res, ret |-> ret, sent |-> sent]

\* a variant of addUser that saves the user whether or not the id is stored
addUserOverwriting(b, st, user_id, name) ==
  IF user_id = <<>> \/ name = <<>> THEN [st |-> st, res |-> "InvalidArgument"]
  ELSE [st |-> saveUser(b, st, user_id, name),
        res |-> IF loadUser(b, st, user_id) # None THEN "OperationFailed" ELSE "ok"]

addUser(b, st, user_id, name) ==
  IF user_id = <<>> \/ name = <<>> THEN [st |-> st, res |-> "InvalidArgument"]
  ELSE IF loadUser(b, st, user_id) # None THEN [st |-> st, res |-> "OperationFailed"]
  ELSE [st |-> saveUser(b, st, user_id, name), res |-> "ok"]

getOrCreateAuthor(b, st, author_id, author_name) ==
  LET author_opt == loadAuthor(b, st, author_id) IN
  IF author_opt # None THEN [st |-> st, res |-> "ok", author |-> author_opt[1]]
  ELSE IF author_id = <<>> \/ author_name = <<>>
  THEN [st |-> st, res |-> "InvalidArgument", author |-> NoAuthor]
  ELSE LET new_author == [id |-> author_id, name |-> author_name] IN
       [st |-> saveAuthor(b, st, new_author), res |-> "ok", author |-> new_author]

addBook(b, st, item_id, title, author_id, author_name, isbn, publication_year) ==
  IF item_id = <<>> \/ title = <<>> \/ isbn = <<>> \/ publication_year <= 0
  THEN [st |-> st, res |-> "InvalidArgument"]
  ELSE IF loadLibraryItem(b, st, item_id) # None
  THEN [st |-> st, res |-> "OperationFailed"]
  ELSE LET got == getOrCreateAuthor(b, st, author_id, author_name) IN
       IF got.res # "ok" THEN [st |-> got.st, res |-> got.res]
       ELSE [st |-> saveLibraryItem(b, got.st,
                      Book(item_id, title, got.author, isbn, publication_year,
                           "AVAILABLE")),
             res |-> "ok"]

\* a variant of updateItemStatus that sets the status on the loaded copy and
\* does not save it
updateItemStatusUnsaved(b, st, item_id, new_status) ==
  IF item_id = <<>> THEN [st |-> st, res |-> "InvalidArgument"]
  ELSE IF loadLibraryItem(b, st, item_id) = None THEN [st |-> st, res |-> "NotFound"]
  ELSE [st |-> st, res |-> "ok"]

updateItemStatus(b, st, item_id, new_status) ==
  IF item_id = <<>> THEN [st |-> st, res |-> "InvalidArgument"]
  ELSE LET item_opt == loadLibraryItem(b, st, item_id) IN
       IF item_opt = None THEN [st |-> st, res |-> "NotFound"]
       ELSE [st |-> saveLibraryItem(b, st, [item_opt[1] EXCEPT !.status = new_status]),
             res |-> "ok"]

m_default_loan_duration_days == LoanDays

generateLoanRecordId(counter) == <<"loan_">> \o to_string(counter + 1)

getActiveLoansForUser(b, st, user_id) ==
  SelectSeq(loadLoanRecordsByUserId(b, st, user_id), LAMBDA r : r.ret = NoDate)

\* a variant of the availability test that lets a reserved item or one in
\* maintenance be borrowed
BlocksOnlyBorrowed(status) == status = "BORROWED"

\* item->getAvailabilityStatus() != AvailabilityStatus::AVAILABLE
ItemUnavailable(status) == status # "AVAILABLE"

\* a variant of the search of returnItem that takes the item's open loan
\* whoever holds it
FindOpenLoanOfAnyUser(all_item_loans, user_id) ==
  SelectSeq(all_item_loans, LAMBDA r : r.ret = NoDate)

\* a variant of the search of returnItem that takes the user's loan of the
\* item whether or not it has been returned
FindLoanOfUser(all_item_loans, user_id) ==
  SelectSeq(all_item_loans, LAMBDA r : r.user = user_id)

\* the loop of returnItem: the loans of the item that are this user's and
\* have no return date; the first of them is the one returned
FindActiveLoan(all_item_loans, user_id) ==
  SelectSeq(all_item_loans, LAMBDA r : r.user = user_id /\ r.ret = NoDate)

borrowItem(b, st, counter, now, user_id, item_id) ==
  IF user_id = <<>> \/ item_id = <<>>
  THEN Outcome(st, counter, "InvalidArgument", None, <<>>)
  ELSE IF loadUser(b, st, user_id) = None
  THEN Outcome(st, counter, "NotFound", None, <<>>)
  ELSE LET item_opt == loadLibraryItem(b, st, item_id) IN
       IF item_opt = None THEN Outcome(st, counter, "NotFound", None, <<>>)
       ELSE IF ItemUnavailable(item_opt[1].status)
       THEN Outcome(st, counter, "OperationFailed", None, <<>>)
       ELSE LET user_loans == getActiveLoansForUser(b, st, user_id) IN
            IF \E k \in 1..Len(user_loans) : user_loans[k].item = item_id
            THEN Outcome(st, counter, "OperationFailed", None, <<>>)
            ELSE LET loan_date == now
                     due_date == addDays(loan_date, m_default_loan_duration_days)
                     loan_id == generateLoanRecordId(counter)
                     new_loan == LoanRecord(loan_id, item_id, user_id, loan_date, due_date)
                     upd == updateItemStatus(b, saveLoanRecord(b, st, new_loan),
                                             item_id, "BORROWED")
                 IN Outcome(upd.st, counter + 1, upd.res,
                            IF upd.res = "ok" THEN Some(new_loan) ELSE None, <<>>)

returnItem(b, st, counter, now, user_id, item_id) ==
  IF user_id = <<>> \/ item_id = <<>>
  THEN Outcome(st, counter, "InvalidArgument", None, <<>>)
  ELSE LET active == FindActiveLoan(loadLoanRecordsByItemId(b, st, item_id), user_id) IN
       IF active = <<>> THEN Outcome(st, counter, "NotFound", None, <<>>)
       ELSE IF ~ReturnDateValid(active[1], now)
       THEN Outcome(st, counter, "InvalidArgument", None, <<>>)
       ELSE LET upd == updateItemStatus(
                         b, updateLoanRecord(b, st, setReturnDate(active[1], now)),
                         item_id, "AVAILABLE")
            IN Outcome(upd.st, counter, upd.res, None, <<>>)

\* a variant of the scan that closes every loan it has notified, so that a
\* second scan stays silent
RECURSIVE CloseLoans(_, _, _, _)
CloseLoans(b, st, loans, now) ==
  IF loans = <<>> THEN st
  ELSE CloseLoans(b, updateLoanRecord(b, st, setReturnDate(Head(loans), now)),
                  Tail(loans), now)

processOverdueItemsOnce(b, st, counter, now) ==
  LET today == TodayOf(now)
      overdue == SelectSeq(loadAllLoanRecords(b, st),
                           LAMBDA r : r.ret = NoDate /\ r.due < today)
  IN Outcome(CloseLoans(b, st, overdue, now), counter, "ok", None,
             [k \in 1..Len(overdue) |-> [user |-> overdue[k].user, loan |-> overdue[k].id]])

\* the notifications of one scan: recipient and loan id of every loaded
\* record with no return date and a due date before today
processOverdueItems(b, st, counter, now) ==
  LET today == TodayOf(now)
      overdue == SelectSeq(loadAllLoanRecords(b, st),
                           LAMBDA r : r.ret = NoDate /\ r.due < today)
  IN Outcome(st, counter, "ok", None,
             [k \in 1..Len(overdue) |-> [user |-> overdue[k].user, loan |-> overdue[k].id]])

(* -------------- the storage calls a service call issues ---------------- *)
\* For each service operation, the operations of IPersistenceService it
\* invokes, in order, when called on the store st.
Issued_addUser(b, st, user_id, name) ==
  IF user_id = <<>> \/ name = <<>> THEN <<>>
  ELSE IF loadUser(b, st, user_id) # None THEN <<"loadUser">>
  ELSE <<"loadUser", "saveUser">>

Issued_getOrCreateAuthor(b, st, author_id, author_name) ==
  IF loadAuthor(b, st, author_id) # None THEN <<"loadAuthor">>
  ELSE IF author_id = <<>> \/ author_name = <<>> THEN <<"loadAuthor">>
  ELSE <<"loadAuthor", "saveAuthor">>

Issued_addBook(b, st, item_id, title, author_id, author_name, isbn, publication_year) ==
  IF item_id = <<>> \/ title = <<>> \/ isbn = <<>> \/ publication_year <= 0 THEN <<>>
  ELSE IF loadLibraryItem(b, st, item_id) # None THEN <<"loadLibraryItem">>
  ELSE <<"loadLibraryItem">>
         \o Issued_getOrCreateAuthor(b, st, author_id, author_name)
         \o (IF getOrCreateAuthor(b, st, author_id, author_name).res = "ok"
             THEN <<"saveLibraryItem">> ELSE <<>>)

Issued_updateItemStatus(b, st, item_id) ==
  IF item_id = <<>> THEN <<>>
  ELSE IF loadLibraryItem(b, st, item_id) = None THEN <<"loadLibraryItem">>
  ELSE <<"loadLibraryItem", "saveLibraryItem">>

Issued_borrowItem(b, st, user_id, item_id) ==
  IF user_id = <<>> \/ item_id = <<>> THEN <<>>
  ELSE IF loadUser(b, st, user_id) = None THEN <<"loadUser">>
  ELSE LET item_opt == loadLibraryItem(b, st, item_id) IN
       IF item_opt = None \/ ItemUnavailable(item_opt[1].status)
       THEN <<"loadUser", "loadLibraryItem">>
       ELSE LET user_loans == getActiveLoansForUser(b, st, user_id) IN
            IF \E k \in 1..Len(user_loans) : user_loans[k].item = item_id
            THEN <<"loadUser", "loadLibraryItem", "loadLoanRecordsByUserId">>
            ELSE <<"loadUser", "loadLibraryItem", "loadLoanRecordsByUserId",
                   "saveLoanRecord">> \o Issued_updateItemStatus(b, st, item_id)

Issued_returnItem(b, st, now, user_id, item_id) ==
  IF user_id = <<>> \/ item_id = <<>> THEN <<>>
  ELSE LET active == FindActiveLoan(loadLoanRecordsByItemId(b, st, item_id), user_id) IN
       IF active = <<>> \/ ~ReturnDateValid(active[1], now)
       THEN <<"loadLoanRecordsByItemId">>
       ELSE <<"loadLoanRecordsByItemId", "updateLoanRecord">>
              \o Issued_updateItemStatus(b, st, item_id)

(* ------------------ the rest of the storage contract ------------------- *)
\* every id of the model, in the order of std::less<std::string>
KeyOrder ==
  << <<"a1">>, <<"b1">>, <<"b2">>, <<"loan_", "1">>, <<"loan_", "2">>,
     <<"u1">>, <<"u2">> >>

\* the values of a std::map in key order
Mem_loadAll(m) ==
  LET keys == SelectSeq(KeyOrder, LAMBDA k : k \in DOMAIN m) IN
  [k \in 1..Len(keys) |-> m[keys[k]]]

File_deleteAuthor(lines, author_id) ==
  writeCsvFile(RemoveRows(readCsvFile(lines), author_id))

File_deleteUser(lines, user_id) ==
  writeCsvFile(RemoveRows(readCsvFile(lines), user_id))

File_deleteLibraryItem(lines, item_id) ==
  writeCsvFile(RemoveRows(readCsvFile(lines), item_id))

\* every 2-field record the Author constructor accepts
File_loadAllAuthors(lines) ==
  LET rows == SelectSeq(readCsvFile(lines),
                        LAMBDA f : Len(f) = 2 /\ f[1] # <<>> /\ f[2] # <<>>) IN
  [k \in 1..Len(rows) |-> [id |-> rows[k][1], name |-> rows[k][2]]]

\* every 2-field record the User constructor accepts
File_loadAllUsers(lines) ==
  LET rows == SelectSeq(readCsvFile(lines),
                        LAMBDA f : Len(f) = 2 /\ f[1] # <<>> /\ f[2] # <<>>) IN
  [k \in 1..Len(rows) |-> [id |-> rows[k][1], name |-> rows[k][2]]]

RECURSIVE BooksOfRows(_, _)
BooksOfRows(rows, authors_lines) ==
  IF rows = <<>> THEN <<>>
  ELSE BookOfFields(Head(rows), authors_lines) \o BooksOfRows(Tail(rows), authors_lines)

File_loadAllLibraryItems(items_lines, authors_lines) ==
  BooksOfRows(SelectSeq(readCsvFile(items_lines),
                        LAMBDA f : Len(f) = 7 /\ f[2] = <<"Book">>),
              authors_lines)

deleteAuthor(b, st, author_id) ==
  IF b = "File" THEN [st EXCEPT !.file.authors = File_deleteAuthor(@, author_id)]
  ELSE [st EXCEPT !.mem.authors = MapErase(@, author_id)]

deleteUser(b, st, user_id) ==
  IF b = "File" THEN [st EXCEPT !.file.users = File_deleteUser(@, user_id)]
  ELSE [st EXCEPT !.mem.users = MapErase(@, user_id)]

deleteLibraryItem(b, st, item_id) ==
  IF b = "File" THEN [st EXCEPT !.file.items = File_deleteLibraryItem(@, item_id)]
  ELSE [st EXCEPT !.mem.items = MapErase(@, item_id)]

loadAllAuthors(b, st) ==
  IF b = "File" THEN File_loadAllAuthors(st.file.authors)
  ELSE Mem_loadAll(st.mem.authors)

\* users as records of id and name
loadAllUsers(b, st) ==
  IF b = "File" THEN File_loadAllUsers(st.file.users)
  ELSE LET keys == SelectSeq(KeyOrder, LAMBDA k : k \in DOMAIN st.mem.users) IN
       [k \in 1..Len(keys) |-> [id |-> keys[k], name |-> st.mem.users[keys[k]]]]

loadAllLibraryItems(b, st) ==
  IF b = "File" THEN File_loadAllLibraryItems(st.file.items, st.file.authors)
  ELSE Mem_loadAll(st.mem.items)

(* --------------------------- Caching backend --------------------------- *)
\* for (x : xs) target->save(x), one loop for each entity type
RECURSIVE SaveAuthors(_, _, _)
SaveAuthors(b, st, xs) ==
  IF xs = <<>> THEN st ELSE SaveAuthors(b, saveAuthor(b, st, Head(xs)), Tail(xs))

RECURSIVE SaveUsers(_, _, _)
SaveUsers(b, st, xs) ==
  IF xs = <<>> THEN st
  ELSE SaveUsers(b, saveUser(b, st, Head(xs).id, Head(xs).name), Tail(xs))

RECURSIVE SaveItems(_, _, _)
SaveItems(b, st, xs) ==
  IF xs = <<>> THEN st ELSE SaveItems(b, saveLibraryItem(b, st, Head(xs)), Tail(xs))

RECURSIVE SaveLoans(_, _, _)
SaveLoans(b, st, xs) ==
  IF xs = <<>> THEN st ELSE SaveLoans(b, saveLoanRecord(b, st, Head(xs)), Tail(xs))

\* a variant of the load that merges the files into the memory store it has
loadAllIntoKeptMemory(st) ==
  LET a == SaveAuthors("InMemory", st, loadAllAuthors("File", st))
      u == SaveUsers("InMemory", a, loadAllUsers("File", st))
      i == SaveItems("InMemory", u, loadAllLibraryItems("File", st))
  IN SaveLoans("InMemory", i, loadAllLoanRecords("File", st))

\* the constructor: a fresh memory store filled from the files, authors
\* first, then users, items and loan records
loadAllFromFileToMemory(st) ==
  LET fresh == [st EXCEPT !.mem = EmptyStore.mem]
      a == SaveAuthors("InMemory", fresh, loadAllAuthors("File", st))
      u == SaveUsers("InMemory", a, loadAllUsers("File", st))
      i == SaveItems("InMemory", u, loadAllLibraryItems("File", st))
  IN SaveLoans("InMemory", i, loadAllLoanRecords("File", st))

\* every entity of the memory store is saved into the file store, in the
\* same order of entity types; nothing is removed from the files
persistAllToFile(st) ==
  LET a == SaveAuthors("File", st, loadAllAuthors("InMemory", st))
      u == SaveUsers("File", a, loadAllUsers("InMemory", st))
      i == SaveItems("File", u, loadAllLibraryItems("InMemory", st))
  IN SaveLoans("File", i, loadAllLoanRecords("InMemory", st))

(* ------------------- In-Memory backend: object identity ---------------- *)
\* Objects live in numbered slots; a pointer (shared_ptr, unique_ptr, the
\* address of a map element) is the number of a slot.  m is the backend with
\* its objects: objs, the slots; m_authors, m_items, m_loan_records, the maps
\* from id to pointer; held, the pointers the caller has in hand; given, for
\* each author id, the pointer the caller passed to the last saveAuthor.

\* slots of the object store
MaxObjects == 5

NullPtr == 0

FreeSlot == [kind |-> "free"]

EmptyObjects ==
  [objs |-> [k \in 1..MaxObjects |-> FreeSlot],
   m_authors |-> <<>>, m_items |-> <<>>, m_loan_records |-> <<>>,
   held |-> {}, given |-> <<>>]

HasFreeSlot(objs) == \E k \in 1..Len(objs) : objs[k] = FreeSlot

\* operator new: the first free slot
NewSlot(objs) ==
  CHOOSE k \in 1..Len(objs) :
    objs[k] = FreeSlot /\ \A j \in 1..(k - 1) : objs[j] # FreeSlot

AuthorObject(id, name) == [kind |-> "Author", id |-> id, name |-> name]

BookObject(id, title, author_ptr, status) ==
  [kind |-> "Book", id |-> id, title |-> title, author |-> author_ptr,
   status |-> status]

LoanObject(id, loan, due, ret) ==
  [kind |-> "Loan", id |-> id, loan |-> loan, due |-> due, ret |-> ret]

\* Book::clone: a new Book with the same fields; the Author is shared
clone(objs, item_ptr) ==
  LET at == NewSlot(objs) IN
  [objs |-> [objs EXCEPT ![at] = objs[item_ptr]], ret |-> at]

\* a variant of loadLibraryItem that hands out the stored item itself
InMemory_loadStoredItem(m, item_id) ==
  IF item_id \in DOMAIN m.m_items
  THEN [m EXCEPT !.held = @ \cup {m.m_items[item_id]}]
  ELSE m

\* a variant of saveAuthor that stores a copy of the given Author
InMemory_saveAuthorCopy(m, author_ptr) ==
  LET at == NewSlot(m.objs) IN
  [m EXCEPT !.objs[at] = m.objs[author_ptr],
            !.m_authors = MapPut(@, m.objs[author_ptr].id, at)]

\* m_authors[author->getId()] = author
InMemory_saveAuthor(m, author_ptr) ==
  [m EXCEPT !.m_authors = MapPut(@, m.objs[author_ptr].id, author_ptr)]

\* the stored shared_ptr, NullPtr for nullopt
InMemory_loadAuthor(m, author_id) ==
  IF author_id \in DOMAIN m.m_authors THEN m.m_authors[author_id] ELSE NullPtr

InMemory_loadAllAuthors(m) == {m.m_authors[id] : id \in DOMAIN m.m_authors}

InMemory_deleteAuthor(m, author_id) ==
  [m EXCEPT !.m_authors = MapErase(@, author_id)]

\* m_items[item->getId()] = item->clone(): the clone is made first, then the
\* unique_ptr it replaces destroys the item stored before
InMemory_saveLibraryItem(m, item_ptr) ==
  LET id == m.objs[item_ptr].id
      made == clone(m.objs, item_ptr)
      objs == IF id \in DOMAIN m.m_items
              THEN [made.objs EXCEPT ![m.m_items[id]] = FreeSlot]
              ELSE made.objs
  IN [m EXCEPT !.objs = objs, !.m_items = MapPut(@, id, made.ret)]

\* it->second->clone() handed to the caller
InMemory_loadLibraryItem(m, item_id) ==
  IF item_id \in DOMAIN m.m_items
  THEN LET made == clone(m.objs, m.m_items[item_id]) IN
       [m EXCEPT !.objs = made.objs, !.held = @ \cup {made.ret}]
  ELSE m

InMemory_deleteLibraryItem(m, item_id) ==
  IF item_id \in DOMAIN m.m_items
  THEN [m EXCEPT !.objs[m.m_items[item_id]] = FreeSlot,
                 !.m_items = MapErase(@, item_id)]
  ELSE m

\* it->second = record on the element found, or emplace of a copy
InMemory_saveLoanRecord(m, record_ptr) ==
  LET id == m.objs[record_ptr].id IN
  IF id \in DOMAIN m.m_loan_records
  THEN [m EXCEPT !.objs[m.m_loan_records[id]] = m.objs[record_ptr]]
  ELSE LET at == NewSlot(m.objs) IN
       [m EXCEPT !.objs[at] = m.objs[record_ptr],
                 !.m_loan_records = MapPut(@, id, at)]

\* return it->second: a copy
InMemory_loadLoanRecord(m, record_id) ==
  IF record_id \in DOMAIN m.m_loan_records
  THEN LET at == NewSlot(m.objs) IN
       [m EXCEPT !.objs[at] = m.objs[m.m_loan_records[record_id]],
                 !.held = @ \cup {at}]
  ELSE m

InMemory_deleteLoanRecord(m, record_id) ==
  IF record_id \in DOMAIN m.m_loan_records
  THEN [m EXCEPT !.objs[m.m_loan_records[record_id]] = FreeSlot,
                 !.m_loan_records = MapErase(@, record_id)]
  ELSE m

\* the setters of the domain objects, through a pointer; a setter that
\* throws leaves the object as it was
Book_setTitle(m, ptr, title) ==
  IF title = <<>> THEN m ELSE [m EXCEPT !.objs[ptr].title = title]

Book_setAvailabilityStatus(m, ptr, status) == [m EXCEPT !.objs[ptr].status = status]

Author_setName(m, ptr, name) ==
  IF name = <<>> THEN m ELSE [m EXCEPT !.objs[ptr].name = name]

LoanRecord_setDueDate(m, ptr, due_date) ==
  IF due_date < m.objs[ptr].loan THEN m ELSE [m EXCEPT !.objs[ptr].due = due_date]

LoanRecord_setReturnDate(m, ptr, return_date) ==
  IF return_date < m.objs[ptr].loan THEN m ELSE [m EXCEPT !.objs[ptr].ret = return_date]

(* ----------------------------- Remote backend -------------------------- *)
\* r is an MsSqlPersistenceService with its odbc_wrapper::Connection and the
\* database session behind it:
\*   alive                the service has not been destroyed
\*   m_in_transaction     MsSqlPersistenceService::m_in_transaction
\*   m_db_connection      the service has a Connection object
\*   m_is_connected       Connection::m_is_connected
\*   conn_in_transaction  Connection::m_in_transaction
\*   session              the driver has a session with the server
\*   autocommit           SQL_ATTR_AUTOCOMMIT of the session
\*   committed            author ids of the rows the server holds durably
\*   pending, deleted     author ids merged / deleted by work not yet committed
\* rc gives the outcome of each ODBC call of one operation: TRUE for
\* SQL_SUCCESS, FALSE for an error return.
NewRemote ==
  [alive |-> TRUE, m_in_transaction |-> FALSE, m_db_connection |-> FALSE,
   m_is_connected |-> FALSE, conn_in_transaction |-> FALSE,
   session |-> FALSE, autocommit |-> TRUE, committed |-> {}, pending |-> {},
   deleted |-> {}]

OdbcOutcomes ==
  [connect : BOOLEAN, attr : BOOLEAN, endtran : BOOLEAN, exec : BOOLEAN,
   disconnect : BOOLEAN, fetch : BOOLEAN, probe : BOOLEAN, getdata : BOOLEAN]

AllSucceed ==
  [connect |-> TRUE, attr |-> TRUE, endtran |-> TRUE, exec |-> TRUE,
   disconnect |-> TRUE, fetch |-> TRUE, probe |-> TRUE, getdata |-> TRUE]

\* the result of a call: the state it leaves and "ok" or the exception
Threw(r, what) == [r |-> r, res |-> what]
Returned(r) == [r |-> r, res |-> "ok"]

Connection_beginTransaction(r, rc) ==
  IF ~r.m_is_connected THEN Threw(r, "OdbcException")
  ELSE IF r.conn_in_transaction THEN Threw(r, "OdbcException")
  ELSE IF ~rc.attr THEN Threw(r, "OdbcException")
  ELSE Returned([r EXCEPT !.autocommit = FALSE, !.conn_in_transaction = TRUE])

\* SQLEndTran(SQL_COMMIT), m_in_transaction = false, then auto-commit is
\* restored; each ODBC call may throw
Connection_commitTransaction(r, rc) ==
  IF ~r.m_is_connected THEN Threw(r, "OdbcException")
  ELSE IF ~r.conn_in_transaction THEN Threw(r, "OdbcException")
  ELSE IF ~rc.endtran THEN Threw(r, "OdbcException")
  ELSE LET ended == [r EXCEPT !.committed = (@ \ r.deleted) \cup r.pending,
                              !.pending = {}, !.deleted = {},
                              !.conn_in_transaction = FALSE]
       IN IF ~rc.attr THEN Threw(ended, "OdbcException")
          ELSE Returned([ended EXCEPT !.autocommit = TRUE])

Connection_rollbackTransaction(r, rc) ==
  IF ~r.m_is_connected THEN Threw(r, "OdbcException")
  ELSE IF ~r.conn_in_transaction THEN Returned(r)
  ELSE IF ~rc.endtran THEN Threw(r, "OdbcException")
  ELSE LET ended == [r EXCEPT !.pending = {}, !.deleted = {},
                              !.conn_in_transaction = FALSE]
       IN IF ~rc.attr THEN Threw(ended, "OdbcException")
          ELSE Returned([ended EXCEPT !.autocommit = TRUE])

\* SQLDisconnect: the driver refuses (SQLSTATE 25000) or accepts to end a
\* session with work of an unfinished transaction, and ends any other one;
\* work the server is left with when a session ends is discarded
SQLDisconnect(r, rc) ==
  IF ~r.session THEN r
  ELSE IF ~r.autocommit /\ r.pending \cup r.deleted # {} /\ ~rc.disconnect THEN r
  ELSE [r EXCEPT !.session = FALSE, !.pending = {}, !.deleted = {},
                 !.autocommit = TRUE]

\* a pending transaction is rolled back inside a try block, then the
\* session is ended; the return code of SQLDisconnect is not looked at
Connection_disconnect(r, rc) ==
  IF r.m_is_connected
  THEN LET tried == IF r.conn_in_transaction
                    THEN Connection_rollbackTransaction(r, rc).r
                    ELSE r
       IN [SQLDisconnect(tried, rc) EXCEPT !.m_is_connected = FALSE]
  ELSE r

\* a new Connection replaces one that is missing or not connected
getConnection(r, rc) ==
  IF r.m_db_connection /\ r.m_is_connected THEN Returned(r)
  ELSE LET fresh == [r EXCEPT !.m_db_connection = TRUE, !.m_is_connected = FALSE,
                              !.conn_in_transaction = FALSE]
           connected == [fresh EXCEPT !.m_is_connected = TRUE, !.session = TRUE,
                                      !.autocommit = TRUE, !.pending = {},
                                      !.deleted = {}]
       IN IF ~rc.connect THEN Threw(fresh, "OdbcException")
          ELSE IF ~rc.attr THEN Threw(connected, "OdbcException")
          ELSE Returned(connected)

MsSql_beginTransaction(r, rc) ==
  LET got == getConnection(r, rc) IN
  IF got.res # "ok" THEN got
  ELSE LET begun == Connection_beginTransaction(got.r, rc) IN
       IF begun.res # "ok" THEN begun
       ELSE Returned([begun.r EXCEPT !.m_in_transaction = TRUE])

MsSql_commitTransaction(r, rc) ==
  IF r.m_in_transaction
  THEN LET got == getConnection(r, rc) IN
       IF got.res # "ok" THEN got
       ELSE LET done == Connection_commitTransaction(got.r, rc) IN
            IF done.res # "ok" THEN done
            ELSE Returned([done.r EXCEPT !.m_in_transaction = FALSE])
  ELSE Returned(r)

\* the OdbcException of the rollback is caught and logged
MsSql_rollbackTransaction(r, rc) ==
  IF r.m_in_transaction
  THEN LET got == getConnection(r, rc)
           done == IF got.res = "ok" THEN Connection_rollbackTransaction(got.r, rc).r
                   ELSE got.r
       IN Returned([done EXCEPT !.m_in_transaction = FALSE])
  ELSE Returned(r)

\* MERGE INTO Authors: the row is durable at once in auto-commit mode,
\* part of the open transaction otherwise
MsSql_saveAuthor(r, author_id, rc) ==
  LET got == getConnection(r, rc) IN
  IF got.res # "ok" THEN Threw(got.r, "OperationFailed")
  ELSE IF ~rc.exec THEN Threw(got.r, "OperationFailed")
  ELSE IF got.r.autocommit
  THEN Returned([got.r EXCEPT !.committed = @ \cup {author_id}])
  ELSE Returned([got.r EXCEPT !.pending = @ \cup {author_id}])

\* the rows of Authors the session sees
VisibleAuthors(r) == (r.committed \ r.deleted) \cup r.pending

\* the result of a load: the state it leaves, "ok" and the value returned
Loaded(r, ret) == [r |-> r, res |-> "ok", ret |-> ret]

\* ResultSet::getString: isNull probes the column with SQLGetData and takes
\* a failure of the probe for a null column, of which the string is ""; a
\* failure of the SQLGetData that fetches the text throws
ResultSet_getString(rc, value) ==
  IF ~rc.probe THEN [res |-> "ok", val |-> <<>>]
  ELSE IF ~rc.getdata THEN [res |-> "OdbcException", val |-> <<>>]
  ELSE [res |-> "ok", val |-> value]

\* prepareStatement, bindString, executeQuery and the first next(); rc.exec
\* stands for SQLAllocHandle, SQLPrepare, SQLBindParameter and SQLExecute
MsSql_query(r, rc) ==
  LET got == getConnection(r, rc) IN
  IF got.res # "ok" THEN got
  ELSE IF ~rc.exec THEN Threw(got.r, "OdbcException")
  ELSE IF ~rc.fetch THEN Threw(got.r, "OdbcException")
  ELSE Returned(got.r)

\* SELECT ... WHERE AuthorId = ?: every exception of the body is caught and
\* thrown again as OperationFailedException
MsSql_loadAuthor(r, author_id, rc) ==
  LET asked == MsSql_query(r, rc)
      id == ResultSet_getString(rc, author_id)
  IN IF asked.res # "ok" THEN Threw(asked.r, "OperationFailed")
     ELSE IF author_id \notin VisibleAuthors(asked.r) THEN Loaded(asked.r, None)
     ELSE IF id.res # "ok" THEN Threw(asked.r, "OperationFailed")
     ELSE IF id.val = <<>> THEN Threw(asked.r, "OperationFailed")
     ELSE Loaded(asked.r, Some(id.val))

\* SELECT AuthorId, Name FROM Authors: inside the loop only the
\* InvalidArgumentException of the Author constructor is caught, and the row
\* is skipped
MsSql_loadAllAuthors(r, rc) ==
  LET asked == MsSql_query(r, rc) IN
  IF asked.res # "ok" THEN Threw(asked.r, "OperationFailed")
  ELSE LET rows == VisibleAuthors(asked.r)
           read == [id \in rows |-> ResultSet_getString(rc, id)]
       IN IF \E id \in rows : read[id].res # "ok"
          THEN Threw(asked.r, "OperationFailed")
          ELSE Loaded(asked.r, {read[id].val : id \in {k \in rows : read[k].val # <<>>}})

\* DELETE FROM Authors WHERE AuthorId = ?
MsSql_deleteAuthor(r, author_id, rc) ==
  LET got == getConnection(r, rc) IN
  IF got.res # "ok" THEN Threw(got.r, "OperationFailed")
  ELSE IF ~rc.exec THEN Threw(got.r, "OperationFailed")
  ELSE IF got.r.autocommit
  THEN Returned([got.r EXCEPT !.committed = @ \ {author_id}])
  ELSE Returned([got.r EXCEPT !.pending = @ \ {author_id},
                              !.deleted = @ \cup {author_id}])

\* ~MsSqlPersistenceService, then ~Connection of the member
MsSql_destroy(r, rc) ==
  LET body == IF r.m_db_connection /\ r.m_is_connected
              THEN LET tried == IF r.m_in_transaction
                                THEN Connection_rollbackTransaction(r, rc).r
                                ELSE r
                   IN Connection_disconnect(tried, rc)
              ELSE r
  IN [Connection_disconnect(body, rc) EXCEPT !.alive = FALSE]

(* --------------------------- the application --------------------------- *)
VARIABLES
  backend,   \* the persistence backend the application was built with
  store,     \* the memory maps and the csv files
  counter,   \* LoanService::m_next_loan_id_counter
  clock,     \* std::chrono::system_clock::now()
  outbox,    \* what the latest call handed to INotificationService
  latest,    \* for each entity type, the value last saved under each id
  persisted, \* the csv files as the last persistAllToFile or start left them
  heap,      \* the In-Memory backend with the identity of its objects
  remote,    \* the Remote backend, its connection and its session
  threads,   \* for each thread inside a call, where it is and its locals
  calls      \* the calls made so far, each with what it returned

vars == <<backend, store, counter, clock, outbox, latest, persisted, heap, remote,
         threads, calls>>

\* the variables of the other configurations
others == <<latest, persisted, heap, remote, threads, calls>>

\* no thread is inside a call
NoThreads == <<>>

Backends == {"InMemory", "File", "Caching"}
UserIds == {<<"u1">>, <<"u2">>}
ItemIds == {<<"b1">>, <<"b2">>}
StatusSet == {Statuses[k] : k \in 1..Len(Statuses)}

Init ==
  /\ backend \in Backends
  /\ store = EmptyStore
  /\ counter = 0
  /\ clock = 0
  /\ outbox = <<>>
  /\ latest = EmptyStore.mem
  /\ persisted = EmptyStore.file
  /\ heap = EmptyObjects
  /\ remote = NewRemote
  /\ threads = NoThreads
  /\ calls = <<>>

\* a catalog, user or contract call: whatever it returns or throws, the
\* application goes on with the store the call left
CommitStore(st) ==
  /\ store' = st
  /\ outbox' = <<>>
  /\ UNCHANGED <<backend, counter, clock, others>>

\* a loan service call
Commit(out) ==
  /\ store' = out.st
  /\ counter' = out.counter
  /\ outbox' = out.sent
  /\ UNCHANGED <<backend, clock, others>>

AddUser ==
  \E u \in UserIds : CommitStore(addUser(backend, store, u, <<"Ann">>).st)

AddBook ==
  \E i \in ItemIds :
    CommitStore(addBook(backend, store, i, <<"Dune">>, <<"a1">>, <<"Herbert">>,
                        <<"isbn">>, 1).st)

UpdateItemStatus ==
  \E i \in ItemIds : \E s \in StatusSet :
    CommitStore(updateItemStatus(backend, store, i, s).st)

BorrowItem ==
  \E u \in UserIds : \E i \in ItemIds :
    /\ counter < MaxLoans
    /\ Commit(borrowItem(backend, store, counter, clock, u, i))

ReturnItem ==
  \E u \in UserIds : \E i \in ItemIds :
    Commit(returnItem(backend, store, counter, clock, u, i))

ProcessOverdueItems ==
  Commit(processOverdueItems(backend, store, counter, clock))

\* a second passes between calls
Tick ==
  /\ clock + SubPerSec <= MaxClock
  /\ clock' = clock + SubPerSec
  /\ UNCHANGED <<backend, store, counter, outbox, others>>

Next ==
  \/ AddUser
  \/ AddBook
  \/ UpdateItemStatus
  \/ BorrowItem
  \/ ReturnItem
  \/ ProcessOverdueItems
  \/ Tick

Spec == Init /\ [][Next]_vars

(* ------------------- the storage contract on its own ------------------- *)
\* A client of IPersistenceService saving and deleting loan records of its
\* own making, as the persistence tests do.
LoanIds == {<<"loan_", "1">>, <<"loan_", "2">>}
SavedInstants == 0..MaxSaved

LoanInputs ==
  UNION {
    {[id |-> id, item |-> <<"b1">>, user |-> u, loan |-> loan,
      due |-> addDays(loan, LoanDays), ret |-> ret] :
       ret \in {NoDate} \cup {t \in SavedInstants : t >= loan}} :
    <<id, u, loan>> \in LoanIds \X UserIds \X SavedInstants}

SaveLoanRecord ==
  \E record \in LoanInputs : CommitStore(saveLoanRecord(backend, store, record))

DeleteLoanRecord ==
  \E id \in LoanIds : CommitStore(deleteLoanRecord(backend, store, id))

StoreNext ==
  \/ SaveLoanRecord
  \/ DeleteLoanRecord

StoreSpec == Init /\ [][StoreNext]_vars

(* ---------------- a caller of the In-Memory backend --------------------- *)
\* A caller that builds authors, books and loan records, saves, loads and
\* deletes them, and changes the objects it has in hand.
AuthorNames == {<<"Ken">>, <<"Jane">>}
Titles == {<<"Dune">>, <<"Emma">>}
HeldStatuses == {"AVAILABLE", "BORROWED"}
ObjectLoanId == <<"loan_", "1">>
ObjectDates == {TicksPerDay, 2 * TicksPerDay}

\* how many objects of each kind the caller keeps in hand at a time
MaxHeldAuthors == 2

MaxHeldItems == 1

MaxHeldLoans == 1

ObjectInit ==
  /\ backend = "InMemory"
  /\ store = EmptyStore
  /\ counter = 0
  /\ clock = 0
  /\ outbox = <<>>
  /\ latest = EmptyStore.mem
  /\ persisted = EmptyStore.file
  /\ heap = EmptyObjects
  /\ remote = NewRemote
  /\ threads = NoThreads
  /\ calls = <<>>

SetHeap(m) ==
  /\ heap' = m
  /\ UNCHANGED <<backend, store, counter, clock, outbox, latest, persisted, remote, threads, calls>>

Held(kind) == {p \in heap.held : heap.objs[p].kind = kind}

\* std::make_shared<Author>, std::make_unique<Book>, LoanRecord(...)
NewObject ==
  /\ HasFreeSlot(heap.objs)
  /\ \E obj \in {AuthorObject(<<"a1">>, n) : n \in AuthorNames}
               \cup {BookObject(<<"b1">>, t, a, "AVAILABLE") :
                        t \in Titles, a \in Held("Author")}
               \cup {LoanObject(ObjectLoanId, 0, d, NoDate) : d \in ObjectDates} :
       /\ obj.kind = "Author" => Cardinality(Held("Author")) < MaxHeldAuthors
       /\ obj.kind = "Book" => Cardinality(Held("Book")) < MaxHeldItems
       /\ obj.kind = "Loan" => Cardinality(Held("Loan")) < MaxHeldLoans
       /\ LET at == NewSlot(heap.objs) IN
          SetHeap([heap EXCEPT !.objs[at] = obj, !.held = @ \cup {at}])

\* a Book or LoanRecord of the caller goes out of scope
DropObject ==
  \E p \in Held("Book") \cup Held("Loan") :
    SetHeap([heap EXCEPT !.objs[p] = FreeSlot, !.held = @ \ {p}])

SaveAuthorObject ==
  \E p \in Held("Author") :
    SetHeap([InMemory_saveAuthor(heap, p) EXCEPT
               !.given = MapPut(@, heap.objs[p].id, p)])

LoadAuthorObject ==
  LET p == InMemory_loadAuthor(heap, <<"a1">>) IN
  /\ p # NullPtr
  /\ SetHeap([heap EXCEPT !.held = @ \cup {p}])

DeleteAuthorObject ==
  SetHeap([InMemory_deleteAuthor(heap, <<"a1">>) EXCEPT
             !.given = MapErase(@, <<"a1">>)])

SaveItemObject ==
  /\ HasFreeSlot(heap.objs)
  /\ \E p \in Held("Book") : SetHeap(InMemory_saveLibraryItem(heap, p))

LoadItemObject ==
  /\ HasFreeSlot(heap.objs)
  /\ Cardinality(Held("Book")) < MaxHeldItems
  /\ SetHeap(InMemory_loadLibraryItem(heap, <<"b1">>))

DeleteItemObject == SetHeap(InMemory_deleteLibraryItem(heap, <<"b1">>))

SaveLoanObject ==
  /\ HasFreeSlot(heap.objs)
  /\ \E p \in Held("Loan") : SetHeap(InMemory_saveLoanRecord(heap, p))

LoadLoanObject ==
  /\ HasFreeSlot(heap.objs)
  /\ Cardinality(Held("Loan")) < MaxHeldLoans
  /\ SetHeap(InMemory_loadLoanRecord(heap, ObjectLoanId))

DeleteLoanObject == SetHeap(InMemory_deleteLoanRecord(heap, ObjectLoanId))

\* the caller changes an object it has in hand
ChangeBook ==
  \E p \in Held("Book") :
    \/ \E t \in Titles : SetHeap(Book_setTitle(heap, p, t))
    \/ \E s \in HeldStatuses : SetHeap(Book_setAvailabilityStatus(heap, p, s))

ChangeLoan ==
  \E p \in Held("Loan") :
    \/ \E d \in ObjectDates : SetHeap(LoanRecord_setDueDate(heap, p, d))
    \/ SetHeap(LoanRecord_setReturnDate(heap, p, TicksPerDay))

RenameAuthor ==
  \E p \in Held("Author") : \E n \in AuthorNames :
    SetHeap(Author_setName(heap, p, n))

ObjectNext ==
  \/ NewObject
  \/ DropObject
  \/ SaveAuthorObject
  \/ LoadAuthorObject
  \/ DeleteAuthorObject
  \/ SaveItemObject
  \/ LoadItemObject
  \/ DeleteItemObject
  \/ SaveLoanObject
  \/ LoadLoanObject
  \/ DeleteLoanObject
  \/ ChangeBook
  \/ ChangeLoan
  \/ RenameAuthor

ObjectSpec == ObjectInit /\ [][ObjectNext]_vars

(* ---------------- a client of the whole storage contract ---------------- *)
\* One client saves, deletes and reads entities of every type through the
\* backend the application chose.  latest is what the client last did for
\* each id since the backend was constructed; persisted is the csv files as
\* the last construction or persistAllToFile left them.
ClientAuthors == {[id |-> <<"a1">>, name |-> n] : n \in AuthorNames}

ClientUsers == {<<"u1">>} \X {<<"Ann">>, <<"Bob">>} \cup {<<"u2">>} \X {<<"Bob">>}

ClientItems ==
  {Book(<<"b1">>, <<"Dune">>, [id |-> <<"a1">>, name |-> <<"Ken">>],
        <<"9">>, 1, s) : s \in HeldStatuses}

ClientLoans ==
  {[id |-> <<"loan_", "1">>, item |-> <<"b1">>, user |-> <<"u1">>, loan |-> 0,
    due |-> addDays(0, LoanDays), ret |-> ret] : ret \in {NoDate, TicksPerDay}}

Client(st, done) ==
  /\ store' = st
  /\ latest' = done
  /\ UNCHANGED <<backend, counter, clock, outbox, persisted, heap, remote, threads, calls>>

ClientSaveAuthor ==
  \E a \in ClientAuthors :
    Client(saveAuthor(backend, store, a),
           [latest EXCEPT !.authors = (a.id :> a) @@ @])

ClientDeleteAuthor ==
  \E id \in {a.id : a \in ClientAuthors} :
    Client(deleteAuthor(backend, store, id),
           [latest EXCEPT !.authors = [k \in DOMAIN @ \ {id} |-> @[k]]])

ClientSaveUser ==
  \E u \in ClientUsers :
    Client(saveUser(backend, store, u[1], u[2]),
           [latest EXCEPT !.users = (u[1] :> u[2]) @@ @])

ClientDeleteUser ==
  \E id \in {u[1] : u \in ClientUsers} :
    Client(deleteUser(backend, store, id),
           [latest EXCEPT !.users = [k \in DOMAIN @ \ {id} |-> @[k]]])

ClientSaveItem ==
  \E i \in ClientItems :
    Client(saveLibraryItem(backend, store, i),
           [latest EXCEPT !.items = (i.id :> i) @@ @])

ClientDeleteItem ==
  \E id \in {i.id : i \in ClientItems} :
    Client(deleteLibraryItem(backend, store, id),
           [latest EXCEPT !.items = [k \in DOMAIN @ \ {id} |-> @[k]]])

ClientSaveLoan ==
  \E r \in ClientLoans :
    Client(saveLoanRecord(backend, store, r),
           [latest EXCEPT !.loans = (r.id :> r) @@ @])

ClientUpdateLoan ==
  \E r \in ClientLoans :
    Client(updateLoanRecord(backend, store, r),
           [latest EXCEPT !.loans = (r.id :> r) @@ @])

ClientDeleteLoan ==
  \E id \in {r.id : r \in ClientLoans} :
    Client(deleteLoanRecord(backend, store, id),
           [latest EXCEPT !.loans = [k \in DOMAIN @ \ {id} |-> @[k]]])

\* the "persist" command of the Caching backend
PersistAllToFile ==
  /\ backend = "Caching"
  /\ store' = persistAllToFile(store)
  /\ persisted' = store'.file
  /\ UNCHANGED <<backend, counter, clock, outbox, latest, heap, remote, threads, calls>>

\* the process ends and a Caching backend is constructed over the same
\* directory
Restart ==
  /\ backend = "Caching"
  /\ store' = loadAllFromFileToMemory(store)
  /\ latest' = store'.mem
  /\ persisted' = store'.file
  /\ UNCHANGED <<backend, counter, clock, outbox, heap, remote, threads, calls>>

ContractNext ==
  \/ ClientSaveAuthor
  \/ ClientDeleteAuthor
  \/ ClientSaveUser
  \/ ClientDeleteUser
  \/ ClientSaveItem
  \/ ClientDeleteItem
  \/ ClientSaveLoan
  \/ ClientUpdateLoan
  \/ ClientDeleteLoan
  \/ PersistAllToFile
  \/ Restart

ContractSpec == Init /\ [][ContractNext]_vars

(* --------------------- a client of the Remote backend ------------------- *)
\* One client of an MsSqlPersistenceService; every ODBC call of an
\* operation may succeed or fail.
RemoteAuthorIds == {<<"a1">>, <<"a2">>, <<"a3">>}

\* the outcomes of the ODBC calls of an operation that reads no result set,
\* and of one that ends no transaction and no session
UpdateOutcomes == {rc \in OdbcOutcomes : rc.fetch /\ rc.probe /\ rc.getdata}

QueryOutcomes == {rc \in OdbcOutcomes : rc.endtran /\ rc.disconnect}

RemoteInit ==
  /\ backend = "Remote"
  /\ store = EmptyStore
  /\ counter = 0
  /\ clock = 0
  /\ outbox = <<>>
  /\ latest = EmptyStore.mem
  /\ persisted = EmptyStore.file
  /\ heap = EmptyObjects
  /\ remote = NewRemote
  /\ threads = NoThreads
  /\ calls = <<>>

SetRemote(r) ==
  /\ remote' = r
  /\ UNCHANGED <<backend, store, counter, clock, outbox, latest, persisted, heap,
               threads, calls>>

RemoteBeginTransaction ==
  /\ remote.alive
  /\ \E rc \in UpdateOutcomes : SetRemote(MsSql_beginTransaction(remote, rc).r)

RemoteCommitTransaction ==
  /\ remote.alive
  /\ \E rc \in UpdateOutcomes : SetRemote(MsSql_commitTransaction(remote, rc).r)

RemoteRollbackTransaction ==
  /\ remote.alive
  /\ \E rc \in UpdateOutcomes : SetRemote(MsSql_rollbackTransaction(remote, rc).r)

RemoteSaveAuthor ==
  /\ remote.alive
  /\ \E rc \in UpdateOutcomes : \E id \in RemoteAuthorIds :
       SetRemote(MsSql_saveAuthor(remote, id, rc).r)

RemoteDeleteAuthor ==
  /\ remote.alive
  /\ \E rc \in UpdateOutcomes : \E id \in RemoteAuthorIds :
       SetRemote(MsSql_deleteAuthor(remote, id, rc).r)

RemoteLoadAuthor ==
  /\ remote.alive
  /\ \E rc \in QueryOutcomes : \E id \in RemoteAuthorIds :
       SetRemote(MsSql_loadAuthor(remote, id, rc).r)

RemoteLoadAllAuthors ==
  /\ remote.alive
  /\ \E rc \in QueryOutcomes : SetRemote(MsSql_loadAllAuthors(remote, rc).r)

RemoteDestroy ==
  /\ remote.alive
  /\ \E rc \in UpdateOutcomes : SetRemote(MsSql_destroy(remote, rc))

RemoteNext ==
  \/ RemoteBeginTransaction
  \/ RemoteCommitTransaction
  \/ RemoteRollbackTransaction
  \/ RemoteSaveAuthor
  \/ RemoteDeleteAuthor
  \/ RemoteLoadAuthor
  \/ RemoteLoadAllAuthors
  \/ RemoteDestroy

RemoteSpec == RemoteInit /\ [][RemoteNext]_vars

(* ---------------- threads calling one In-Memory backend ---------------- *)
\* Several threads call the loan record operations of one
\* InMemoryPersistenceService.  A call takes m_mutex with a lock_guard as
\* its first statement and holds it until it returns; its body is one step
\* per access to m_loan_records.
Threads == {"t1", "t2"}

\* calls made in one run at most
MaxCalls == 3

ThreadRecords ==
  {[LoanRecord(id, <<"b1">>, u, 0, addDays(0, LoanDays)) EXCEPT !.ret = NoDate] :
     <<id, u>> \in LoanIds \X UserIds}

MemCalls ==
  {[op |-> o, arg |-> r] : <<o, r>> \in {"save", "update"} \X ThreadRecords}
    \cup {[op |-> o, arg |-> id] : <<o, id>> \in {"load", "delete"} \X LoanIds}
    \cup {[op |-> "loadAll", arg |-> <<>>]}

\* what a call returning void hands back
Void == <<"void">>

IdleThread ==
  [pc |-> "idle", call |-> 0, it |-> FALSE, cursor |-> <<>>, acc |-> <<>>, reg |-> 0]

\* the threads inside a lock_guard scope of m_mutex
MutexHolders == {t \in Threads : threads[t].pc \in {"body", "found", "unlock"}}

\* a variant of the lock that lets a thread in whoever holds it
MutexNeverHeld(t) == TRUE

\* std::lock_guard<std::mutex> lock(m_mutex) can be passed
MutexFree(t) == MutexHolders \ {t} = {}

MemThreadInit ==
  /\ backend = "InMemory"
  /\ store = EmptyStore
  /\ counter = 0
  /\ clock = 0
  /\ outbox = <<>>
  /\ latest = EmptyStore.mem
  /\ persisted = EmptyStore.file
  /\ heap = EmptyObjects
  /\ remote = NewRemote
  /\ threads = [t \in Threads |-> IdleThread]
  /\ calls = <<>>

\* a step of thread t that leaves the maps alone
ThreadStep(t, next) ==
  /\ threads' = [threads EXCEPT ![t] = next]
  /\ UNCHANGED <<backend, store, counter, clock, outbox, latest, persisted, heap,
                 remote, calls>>

\* whatever a std::map can be left holding
LoanMaps == UNION {[ids -> ThreadRecords] : ids \in SUBSET LoanIds}

\* a step of thread t that leaves m_loan_records as m; a write made while
\* another thread is inside an operation is a data race on the map, which
\* may leave it holding anything
ThreadWrite(t, next, m) ==
  /\ threads' = [threads EXCEPT ![t] = next]
  /\ \E left \in (IF MutexHolders \ {t} = {} THEN {m} ELSE LoanMaps) :
       store' = [store EXCEPT !.mem.loans = left]
  /\ UNCHANGED <<backend, counter, clock, outbox, latest, persisted, heap,
                 remote, calls>>

\* a thread enters an operation; the call is recorded with the calls other
\* threads are inside at that moment
MemCall ==
  \E t \in Threads : \E c \in MemCalls :
    /\ threads[t].pc = "idle"
    /\ Len(calls) < MaxCalls
    /\ calls' = Append(calls, [thread |-> t, op |-> c.op, arg |-> c.arg, ret |-> <<>>,
                               during |-> {threads[o].call : o \in
                                 {o \in Threads : threads[o].pc # "idle"}}])
    /\ threads' = [threads EXCEPT ![t] = [IdleThread EXCEPT !.pc = "lock",
                                                           !.call = Len(calls) + 1]]
    /\ UNCHANGED <<backend, store, counter, clock, outbox, latest, persisted, heap,
                   remote>>

MemLock ==
  \E t \in Threads :
    /\ threads[t].pc = "lock"
    /\ MutexFree(t)
    /\ ThreadStep(t, [threads[t] EXCEPT !.pc = "body"])

\* auto it = m_loan_records.find(id)
MemFind ==
  \E t \in Threads :
    LET c == calls[threads[t].call]
        id == IF c.op = "load" THEN c.arg ELSE c.arg.id IN
    /\ threads[t].pc = "body"
    /\ c.op \in {"save", "update", "load"}
    /\ ThreadStep(t, [threads[t] EXCEPT !.pc = "found",
                                        !.it = id \in DOMAIN store.mem.loans])

\* it->second = record, or m_loan_records.emplace(id, record), which leaves
\* an entry made in the meantime as it is
MemStore ==
  \E t \in Threads :
    LET c == calls[threads[t].call]
        m == store.mem.loans
        assigned == [k \in DOMAIN m \cup {c.arg.id} |->
                       IF k = c.arg.id THEN c.arg ELSE m[k]] IN
    /\ threads[t].pc = "found"
    /\ c.op \in {"save", "update"}
    /\ ThreadWrite(t, [threads[t] EXCEPT !.pc = "unlock", !.acc = Void],
                   IF threads[t].it \/ c.arg.id \notin DOMAIN m THEN assigned ELSE m)

\* return it->second, or std::nullopt
MemCopy ==
  \E t \in Threads :
    LET c == calls[threads[t].call]
        m == store.mem.loans IN
    /\ threads[t].pc = "found"
    /\ c.op = "load"
    /\ ThreadStep(t, [threads[t] EXCEPT
                        !.pc = "unlock",
                        !.acc = IF threads[t].it /\ c.arg \in DOMAIN m
                                THEN <<m[c.arg]>> ELSE <<>>])

\* m_loan_records.erase(id)
MemErase ==
  \E t \in Threads :
    LET c == calls[threads[t].call]
        m == store.mem.loans IN
    /\ threads[t].pc = "body"
    /\ c.op = "delete"
    /\ ThreadWrite(t, [threads[t] EXCEPT !.pc = "unlock", !.acc = Void],
                   [k \in DOMAIN m \ {c.arg} |-> m[k]])

\* one round of for (const auto& pair : m_loan_records)
MemIterate ==
  \E t \in Threads :
    LET c == calls[threads[t].call]
        m == store.mem.loans
        ahead == {k \in DOMAIN m :
                    threads[t].cursor = <<>> \/ LoanIdLess(threads[t].cursor, k)} IN
    /\ threads[t].pc = "body"
    /\ c.op = "loadAll"
    /\ IF ahead = {}
       THEN ThreadStep(t, [threads[t] EXCEPT !.pc = "unlock"])
       ELSE LET k == CHOOSE k \in ahead : \A o \in ahead \ {k} : LoanIdLess(k, o) IN
            ThreadStep(t, [threads[t] EXCEPT !.cursor = k, !.acc = Append(@, m[k])])

\* the call returns and the lock_guard goes out of scope
MemUnlock ==
  \E t \in Threads :
    /\ threads[t].pc = "unlock"
    /\ calls' = [calls EXCEPT ![threads[t].call].ret = threads[t].acc]
    /\ threads' = [threads EXCEPT ![t] = IdleThread]
    /\ UNCHANGED <<backend, store, counter, clock, outbox, latest, persisted, heap,
                   remote>>

MemThreadNext ==
  \/ MemCall
  \/ MemLock
  \/ MemFind
  \/ MemStore
  \/ MemCopy
  \/ MemErase
  \/ MemIterate
  \/ MemUnlock

MemThreadSpec == MemThreadInit /\ [][MemThreadNext]_vars

\* what one call does to a store on its own, and what it returns
CallAlone(st, c) ==
  IF c.op = "save" THEN [st |-> saveLoanRecord("InMemory", st, c.arg), ret |-> Void]
  ELSE IF c.op = "update"
  THEN [st |-> updateLoanRecord("InMemory", st, c.arg), ret |-> Void]
  ELSE IF c.op = "delete"
  THEN [st |-> deleteLoanRecord("InMemory", st, c.arg), ret |-> Void]
  ELSE IF c.op = "load"
  THEN [st |-> st, ret |-> loadLoanRecord("InMemory", st, c.arg)]
  ELSE [st |-> st, ret |-> loadAllLoanRecords("InMemory", st)]

\* call j had returned when call i was entered
Before(j, i) == j < i /\ j \notin calls[i].during

\* the orders in which n calls can be made one after the other, a call that
\* had returned before another was entered coming first
Orders(n) ==
  {p \in [1..n -> 1..n] :
     /\ \A i, j \in 1..n : i # j => p[i] # p[j]
     /\ \A i, j \in 1..n : i < j => ~Before(p[j], p[i])}

\* the store after the first k calls of the order p, made one at a time
RECURSIVE StoreAfter(_, _)
StoreAfter(p, k) ==
  IF k = 0 THEN EmptyStore ELSE CallAlone(StoreAfter(p, k - 1), calls[p[k]]).st

(* ------------------ threads calling one File backend ------------------- *)
\* Several threads call saveUser of one FilePersistenceService.  The class
\* has no mutex: a call reads users.csv into all_users_data, changes its
\* copy, and writes the file anew from the copy.
ThreadUserIds == {<<"u1">>, <<"u2">>, <<"u3">>}

FileThreadInit ==
  /\ backend = "File"
  /\ store = EmptyStore
  /\ counter = 0
  /\ clock = 0
  /\ outbox = <<>>
  /\ latest = EmptyStore.mem
  /\ persisted = EmptyStore.file
  /\ heap = EmptyObjects
  /\ remote = NewRemote
  /\ threads = [t \in Threads |-> IdleThread]
  /\ calls = <<>>

\* a thread enters saveUser
FileCall ==
  \E t \in Threads : \E id \in ThreadUserIds :
    /\ threads[t].pc = "idle"
    /\ Len(calls) < MaxCalls
    /\ calls' = Append(calls, [thread |-> t, op |-> "save", arg |-> id, ret |-> <<>>,
                               during |-> {threads[o].call : o \in
                                 {o \in Threads : threads[o].pc # "idle"}}])
    /\ threads' = [threads EXCEPT ![t] = [IdleThread EXCEPT !.pc = "read",
                                                           !.call = Len(calls) + 1]]
    /\ UNCHANGED <<backend, store, counter, clock, outbox, latest, persisted, heap,
                   remote>>

\* auto all_users_data = readCsvFile(m_users_file)
FileRead ==
  \E t \in Threads :
    /\ threads[t].pc = "read"
    /\ ThreadStep(t, [threads[t] EXCEPT !.pc = "write",
                                        !.acc = readCsvFile(store.file.users)])

\* the loop over all_users_data, then writeCsvFile(m_users_file, all_users_data)
FileWrite ==
  \E t \in Threads :
    LET c == calls[threads[t].call] IN
    /\ threads[t].pc = "write"
    /\ store' = [store EXCEPT !.file.users =
                   writeCsvFile(UpsertName(threads[t].acc, c.arg, <<"Ann">>))]
    /\ calls' = [calls EXCEPT ![threads[t].call].ret = Void]
    /\ threads' = [threads EXCEPT ![t] = IdleThread]
    /\ UNCHANGED <<backend, counter, clock, outbox, latest, persisted, heap, remote>>

FileThreadNext ==
  \/ FileCall
  \/ FileRead
  \/ FileWrite

FileThreadSpec == FileThreadInit /\ [][FileThreadNext]_vars

(* ----------------- threads calling one Remote backend ------------------ *)
\* Several threads call saveAuthor of one MsSqlPersistenceService.  A call
\* gets the cached connection from getConnection, which holds m_db_mutex
\* from its first statement to its return, and then prepares, binds and
\* executes its statement on that connection.
ThreadOutcomes ==
  {rc \in OdbcOutcomes :
     rc.attr /\ rc.endtran /\ rc.disconnect /\ rc.fetch /\ rc.probe /\ rc.getdata}

RemoteThreadInit ==
  /\ backend = "Remote"
  /\ store = EmptyStore
  /\ counter = 0
  /\ clock = 0
  /\ outbox = <<>>
  /\ latest = EmptyStore.mem
  /\ persisted = EmptyStore.file
  /\ heap = EmptyObjects
  /\ remote = NewRemote
  /\ threads = [t \in Threads |-> IdleThread]
  /\ calls = <<>>

\* a thread enters saveAuthor
RemoteThreadCall ==
  \E t \in Threads : \E id \in RemoteAuthorIds :
    /\ threads[t].pc = "idle"
    /\ Len(calls) < MaxCalls
    /\ calls' = Append(calls, [thread |-> t, op |-> "save", arg |-> id, ret |-> <<>>,
                               during |-> {threads[o].call : o \in
                                 {o \in Threads : threads[o].pc # "idle"}}])
    /\ threads' = [threads EXCEPT ![t] = [IdleThread EXCEPT !.pc = "connect",
                                                           !.call = Len(calls) + 1]]
    /\ UNCHANGED <<backend, store, counter, clock, outbox, latest, persisted, heap,
                   remote>>

\* thread t leaves its call with what it returns or throws
ThreadReturn(t, r, what) ==
  /\ remote' = r
  /\ calls' = [calls EXCEPT ![threads[t].call].ret = what]
  /\ threads' = [threads EXCEPT ![t] = IdleThread]
  /\ UNCHANGED <<backend, store, counter, clock, outbox, latest, persisted, heap>>

\* thread t goes on inside its call
ThreadGoOn(t, r, pc) ==
  /\ remote' = r
  /\ threads' = [threads EXCEPT ![t].pc = pc]
  /\ UNCHANGED <<backend, store, counter, clock, outbox, latest, persisted, heap,
                 calls>>

\* getConnection(): m_db_mutex is taken on entry and released on return
RemoteThreadGetConnection ==
  \E t \in Threads : \E rc \in ThreadOutcomes :
    LET got == getConnection(remote, rc) IN
    /\ threads[t].pc = "connect"
    /\ IF got.res = "ok" THEN ThreadGoOn(t, got.r, "prepare")
       ELSE ThreadReturn(t, got.r, <<"OperationFailed">>)

\* prepareStatement(sql) on the connection
RemoteThreadPrepare ==
  \E t \in Threads :
    /\ threads[t].pc = "prepare"
    /\ ThreadGoOn(t, remote, "bind")

\* stmt_ptr->bindString(1, ...), stmt_ptr->bindString(2, ...)
RemoteThreadBind ==
  \E t \in Threads :
    /\ threads[t].pc = "bind"
    /\ ThreadGoOn(t, remote, "execute")

\* stmt_ptr->executeUpdate()
RemoteThreadExecute ==
  \E t \in Threads : \E rc \in ThreadOutcomes :
    LET done == MsSql_saveAuthor(remote, calls[threads[t].call].arg, rc) IN
    /\ threads[t].pc = "execute"
    /\ ThreadReturn(t, done.r, IF done.res = "ok" THEN Void ELSE <<done.res>>)

RemoteThreadNext ==
  \/ RemoteThreadCall
  \/ RemoteThreadGetConnection
  \/ RemoteThreadPrepare
  \/ RemoteThreadBind
  \/ RemoteThreadExecute

RemoteThreadSpec == RemoteThreadInit /\ [][RemoteThreadNext]_vars

\* the threads that have a statement of their own on the connection
OnConnection == {t \in Threads : threads[t].pc \in {"bind", "execute"}}

(* ------------------ threads calling one LoanService -------------------- *)
\* Several threads call borrowItem of one LoanService built on the In-Memory
\* backend, while users and books are added.  Each call of the service into
\* the storage contract is one step; generateLoanRecordId takes m_id_mutex
\* with a lock_guard, increments m_next_loan_id_counter and builds the id.
LoanThreadInit ==
  /\ backend = "InMemory"
  /\ store = EmptyStore
  /\ counter = 0
  /\ clock = 0
  /\ outbox = <<>>
  /\ latest = EmptyStore.mem
  /\ persisted = EmptyStore.file
  /\ heap = EmptyObjects
  /\ remote = NewRemote
  /\ threads = [t \in Threads |-> IdleThread]
  /\ calls = <<>>

\* the threads inside the lock_guard scope of m_id_mutex
IdMutexHolders == {t \in Threads : threads[t].pc \in {"idread", "idstore", "idunlock"}}

\* a variant of the id lock that lets a thread in whoever holds it
IdMutexNeverHeld(t) == TRUE

\* std::lock_guard<std::mutex> lock(m_id_mutex) can be passed
IdMutexFree(t) == IdMutexHolders \ {t} = {}

\* thread t leaves borrowItem with an exception or with the new loan
BorrowReturn(t, what) ==
  /\ calls' = [calls EXCEPT ![threads[t].call].ret = what]
  /\ threads' = [threads EXCEPT ![t] = IdleThread]
  /\ UNCHANGED <<backend, store, counter, clock, outbox, latest, persisted, heap,
                 remote>>

\* a thread enters borrowItem with ids that are not empty
BorrowEnter ==
  \E t \in Threads : \E u \in UserIds : \E i \in ItemIds :
    /\ threads[t].pc = "idle"
    /\ Len(calls) < MaxCalls
    /\ calls' = Append(calls, [thread |-> t, op |-> "borrow",
                               arg |-> [user |-> u, item |-> i], ret |-> <<>>,
                               during |-> {threads[o].call : o \in
                                 {o \in Threads : threads[o].pc # "idle"}}])
    /\ threads' = [threads EXCEPT ![t] = [IdleThread EXCEPT !.pc = "user",
                                                           !.call = Len(calls) + 1]]
    /\ UNCHANGED <<backend, store, counter, clock, outbox, latest, persisted, heap,
                   remote>>

\* m_user_service->findUserById(user_id)
BorrowFindUser ==
  \E t \in Threads :
    /\ threads[t].pc = "user"
    /\ IF loadUser(backend, store, calls[threads[t].call].arg.user) = None
       THEN BorrowReturn(t, <<"NotFound">>)
       ELSE ThreadStep(t, [threads[t] EXCEPT !.pc = "item"])

\* m_catalog_service->findItemById(item_id) and the availability test
BorrowFindItem ==
  \E t \in Threads :
    LET item_opt == loadLibraryItem(backend, store, calls[threads[t].call].arg.item) IN
    /\ threads[t].pc = "item"
    /\ IF item_opt = None THEN BorrowReturn(t, <<"NotFound">>)
       ELSE IF ItemUnavailable(item_opt[1].status)
       THEN BorrowReturn(t, <<"OperationFailed">>)
       ELSE ThreadStep(t, [threads[t] EXCEPT !.pc = "loans"])

\* getActiveLoansForUser(user_id) and the search for a loan of this item
BorrowFindLoans ==
  \E t \in Threads :
    LET c == calls[threads[t].call]
        user_loans == getActiveLoansForUser(backend, store, c.arg.user) IN
    /\ threads[t].pc = "loans"
    /\ IF \E k \in 1..Len(user_loans) : user_loans[k].item = c.arg.item
       THEN BorrowReturn(t, <<"OperationFailed">>)
       ELSE ThreadStep(t, [threads[t] EXCEPT !.pc = "idlock"])

IdLock ==
  \E t \in Threads :
    /\ threads[t].pc = "idlock"
    /\ IdMutexFree(t)
    /\ ThreadStep(t, [threads[t] EXCEPT !.pc = "idread"])

\* ++m_next_loan_id_counter reads the counter ...
IdRead ==
  \E t \in Threads :
    /\ threads[t].pc = "idread"
    /\ ThreadStep(t, [threads[t] EXCEPT !.pc = "idstore", !.reg = counter])

\* ... and stores the value read plus one; the id is built from that value
IdStore ==
  \E t \in Threads :
    /\ threads[t].pc = "idstore"
    /\ counter' = threads[t].reg + 1
    /\ threads' = [threads EXCEPT ![t].pc = "idunlock",
                                  ![t].acc = generateLoanRecordId(threads[t].reg)]
    /\ UNCHANGED <<backend, store, clock, outbox, latest, persisted, heap, remote,
                   calls>>

IdUnlock ==
  \E t \in Threads :
    /\ threads[t].pc = "idunlock"
    /\ ThreadStep(t, [threads[t] EXCEPT !.pc = "save"])

\* m_persistence_service->saveLoanRecord(new_loan)
BorrowSave ==
  \E t \in Threads :
    LET c == calls[threads[t].call]
        new_loan == LoanRecord(threads[t].acc, c.arg.item, c.arg.user, clock,
                               addDays(clock, m_default_loan_duration_days)) IN
    /\ threads[t].pc = "save"
    /\ store' = saveLoanRecord(backend, store, new_loan)
    /\ threads' = [threads EXCEPT ![t].pc = "status"]
    /\ UNCHANGED <<backend, counter, clock, outbox, latest, persisted, heap, remote,
                   calls>>

\* m_catalog_service->updateItemStatus(item_id, BORROWED); return new_loan
BorrowStatus ==
  \E t \in Threads :
    LET c == calls[threads[t].call]
        upd == updateItemStatus(backend, store, c.arg.item, "BORROWED") IN
    /\ threads[t].pc = "status"
    /\ store' = upd.st
    /\ calls' = [calls EXCEPT ![threads[t].call].ret =
                   IF upd.res = "ok" THEN <<"ok", threads[t].acc>> ELSE <<upd.res>>]
    /\ threads' = [threads EXCEPT ![t] = IdleThread]
    /\ UNCHANGED <<backend, counter, clock, outbox, latest, persisted, heap, remote>>

LoanThreadNext ==
  \/ AddUser
  \/ AddBook
  \/ BorrowEnter
  \/ BorrowFindUser
  \/ BorrowFindItem
  \/ BorrowFindLoans
  \/ IdLock
  \/ IdRead
  \/ IdStore
  \/ IdUnlock
  \/ BorrowSave
  \/ BorrowStatus

LoanThreadSpec == LoanThreadInit /\ [][LoanThreadNext]_vars

\* the borrowItem calls that returned a loan
Borrowed == {k \in 1..Len(calls) : calls[k].op = "borrow" /\ Len(calls[k].ret) = 2}

(* ----------------------- a holder of a LoanRecord ---------------------- *)
\* A caller constructs LoanRecords and calls setDueDate and setReturnDate on
\* the one it holds.  Here calls keeps the latest call only, with the record
\* held before it, the record held after it, and "ok" or the exception thrown.
RecordDates == 0..3

RecordInit ==
  /\ backend = "InMemory"
  /\ store = EmptyStore
  /\ counter = 0
  /\ clock = 0
  /\ outbox = <<>>
  /\ latest = EmptyStore.mem
  /\ persisted = EmptyStore.file
  /\ heap = EmptyObjects
  /\ remote = NewRemote
  /\ threads = NoThreads
  /\ calls = <<>>

\* the record the caller holds, as an optional
HeldRecord == IF calls = <<>> THEN None ELSE calls[Len(calls)].after

RecordCall(op, arg, res, after) ==
  /\ calls' = <<[op |-> op, arg |-> arg, ret |-> res,
                 before |-> HeldRecord, after |-> after]>>
  /\ UNCHANGED <<backend, store, counter, clock, outbox, latest, persisted, heap,
                 remote, threads>>

\* LoanRecord(record_id, item_id, user_id, loan_date, due_date); when the
\* constructor throws, the caller goes on with the record it held
RecordConstruct ==
  \E id \in {<<>>, <<"loan_", "1">>} : \E item \in {<<>>, <<"b1">>} :
  \E user \in {<<>>, <<"u1">>} : \E loan \in RecordDates : \E due \in RecordDates :
    LET arg == [id |-> id, item |-> item, user |-> user, loan |-> loan, due |-> due] IN
    IF LoanRecordValid(id, item, user, loan, due)
    THEN RecordCall("LoanRecord", arg, "ok", Some(LoanRecord(id, item, user, loan, due)))
    ELSE RecordCall("LoanRecord", arg, "InvalidArgument", HeldRecord)

RecordSetDueDate ==
  \E due_date \in RecordDates :
    /\ HeldRecord # None
    /\ IF DueDateValid(HeldRecord[1], due_date)
       THEN RecordCall("setDueDate", due_date, "ok",
                       Some(setDueDate(HeldRecord[1], due_date)))
       ELSE RecordCall("setDueDate", due_date, "InvalidArgument", HeldRecord)

RecordSetReturnDate ==
  \E return_date \in RecordDates :
    /\ HeldRecord # None
    /\ IF ReturnDateValid(HeldRecord[1], return_date)
       THEN RecordCall("setReturnDate", return_date, "ok",
                       Some(setReturnDate(HeldRecord[1], return_date)))
       ELSE RecordCall("setReturnDate", return_date, "InvalidArgument", HeldRecord)

RecordNext ==
  \/ RecordConstruct
  \/ RecordSetDueDate
  \/ RecordSetReturnDate

RecordSpec == RecordInit /\ [][RecordNext]_vars

(* ------------------ a writer of texts to the csv files ----------------- *)
\* A client of the File backend saves users and books whose name or title is
\* any short text over the characters the csv layer treats specially and an
\* ordinary one.  Here calls keeps the latest save only.
CsvTokens == {COMMA, QUOTE, COMMA_PLACEHOLDER, QUOTE_PLACEHOLDER, "a"}

\* characters of a saved text at most
MaxText == 2

CsvTexts == UNION {[1..n -> CsvTokens] : n \in 1..MaxText}

CsvInit ==
  /\ backend = "File"
  /\ store = EmptyStore
  /\ counter = 0
  /\ clock = 0
  /\ outbox = <<>>
  /\ latest = EmptyStore.mem
  /\ persisted = EmptyStore.file
  /\ heap = EmptyObjects
  /\ remote = NewRemote
  /\ threads = NoThreads
  /\ calls = <<>>

CsvSaved(st, op, id, text) ==
  /\ store' = st
  /\ calls' = <<[op |-> op, id |-> id, text |-> text]>>
  /\ UNCHANGED <<backend, counter, clock, outbox, latest, persisted, heap, remote,
                 threads>>

CsvSaveUser ==
  \E name \in CsvTexts :
    CsvSaved(saveUser(backend, store, <<"u1">>, name), "saveUser", <<"u1">>, name)

\* the author is saved first, as CatalogService::addBook does
CsvSaveBook ==
  \E title \in CsvTexts :
    LET author == [id |-> <<"a1">>, name |-> <<"Ken">>]
        book == Book(<<"b1">>, title, author, <<"9">>, 1, "AVAILABLE") IN
    CsvSaved(saveLibraryItem(backend, saveAuthor(backend, store, author), book),
             "saveLibraryItem", <<"b1">>, title)

CsvNext ==
  \/ CsvSaveUser
  \/ CsvSaveBook

CsvSpec == CsvInit /\ [][CsvNext]_vars

(* ------------------ a csv file that cannot be written ------------------ *)
\* writeCsvFile throws OperationFailedException when it cannot open its file
\* for writing.  writable is the set of csv files that can be opened when
\* the call is made; the other backends have no write that fails this way.
CsvFiles == {"authors", "users", "items", "loans"}

CanWrite(b, writable, file) == b # "File" \/ file \in writable

updateItemStatusOn(b, st, item_id, new_status, writable) ==
  IF item_id = <<>> THEN [st |-> st, res |-> "InvalidArgument"]
  ELSE LET item_opt == loadLibraryItem(b, st, item_id) IN
       IF item_opt = None THEN [st |-> st, res |-> "NotFound"]
       ELSE IF ~CanWrite(b, writable, "items")
       THEN [st |-> st, res |-> "OperationFailed"]
       ELSE [st |-> saveLibraryItem(b, st, [item_opt[1] EXCEPT !.status = new_status]),
             res |-> "ok"]

\* a variant of borrowItem that deletes the loan record it saved when the
\* status update throws
borrowItemCompensating(b, st, ctr, now, user_id, item_id, writable) ==
  LET out == borrowItem(b, st, ctr, now, user_id, item_id) IN
  IF out.res # "ok" THEN out
  ELSE IF ~CanWrite(b, writable, "loans")
  THEN Outcome(st, ctr + 1, "OperationFailed", None, <<>>)
  ELSE IF ~CanWrite(b, writable, "items")
  THEN Outcome(st, ctr + 1, "OperationFailed", None, <<>>)
  ELSE out

\* borrowItem when only the files of writable can be written: an exception of
\* saveLoanRecord or of updateItemStatus leaves the call where it is thrown
borrowItemOn(b, st, ctr, now, user_id, item_id, writable) ==
  IF user_id = <<>> \/ item_id = <<>>
  THEN Outcome(st, ctr, "InvalidArgument", None, <<>>)
  ELSE IF loadUser(b, st, user_id) = None
  THEN Outcome(st, ctr, "NotFound", None, <<>>)
  ELSE LET item_opt == loadLibraryItem(b, st, item_id) IN
       IF item_opt = None THEN Outcome(st, ctr, "NotFound", None, <<>>)
       ELSE IF ItemUnavailable(item_opt[1].status)
       THEN Outcome(st, ctr, "OperationFailed", None, <<>>)
       ELSE LET user_loans == getActiveLoansForUser(b, st, user_id) IN
            IF \E k \in 1..Len(user_loans) : user_loans[k].item = item_id
            THEN Outcome(st, ctr, "OperationFailed", None, <<>>)
            ELSE LET loan_date == now
                     due_date == addDays(loan_date, m_default_loan_duration_days)
                     loan_id == generateLoanRecordId(ctr)
                     new_loan == LoanRecord(loan_id, item_id, user_id, loan_date, due_date)
                 IN IF ~CanWrite(b, writable, "loans")
                    THEN Outcome(st, ctr + 1, "OperationFailed", None, <<>>)
                    ELSE LET upd == updateItemStatusOn(b, saveLoanRecord(b, st, new_loan),
                                                       item_id, "BORROWED", writable)
                         IN Outcome(upd.st, ctr + 1, upd.res,
                                    IF upd.res = "ok" THEN Some(new_loan) ELSE None, <<>>)

\* The application on the File backend, with csv files that at times cannot
\* be written.
FaultInit ==
  /\ backend = "File"
  /\ store = EmptyStore
  /\ counter = 0
  /\ clock = 0
  /\ outbox = <<>>
  /\ latest = EmptyStore.mem
  /\ persisted = EmptyStore.file
  /\ heap = EmptyObjects
  /\ remote = NewRemote
  /\ threads = NoThreads
  /\ calls = <<>>

BorrowItemOn ==
  \E u \in UserIds : \E i \in ItemIds : \E writable \in SUBSET {"items", "loans"} :
    /\ counter < MaxLoans
    /\ Commit(borrowItemOn(backend, store, counter, clock, u, i, writable))

FaultNext ==
  \/ AddUser
  \/ AddBook
  \/ BorrowItemOn
  \/ Tick

FaultSpec == FaultInit /\ [][FaultNext]_vars

(* ------------------- a catalog that items are removed from ------------- *)
removeItem(b, st, item_id) ==
  IF item_id = <<>> THEN [st |-> st, res |-> "InvalidArgument", ret |-> FALSE]
  ELSE IF loadLibraryItem(b, st, item_id) = None
  THEN [st |-> st, res |-> "ok", ret |-> FALSE]
  ELSE [st |-> deleteLibraryItem(b, st, item_id), res |-> "ok", ret |-> TRUE]

RemoveItem ==
  \E i \in ItemIds : CommitStore(removeItem(backend, store, i).st)

\* The application adding and removing items while they are lent.
CatalogNext ==
  \/ AddUser
  \/ AddBook
  \/ RemoveItem
  \/ BorrowItem
  \/ ReturnItem
  \/ Tick

CatalogSpec == Init /\ [][CatalogNext]_vars

(* ---------------- one LoanService instance after another --------------- *)
\* A new LoanService is constructed over the files the previous one left:
\* m_next_loan_id_counter starts at 0 again.
NewLoanService ==
  /\ counter > 0
  /\ counter' = 0
  /\ UNCHANGED <<backend, store, clock, outbox, others>>

LifetimeNext ==
  \/ AddUser
  \/ AddBook
  \/ BorrowItem
  \/ NewLoanService
  \/ Tick

LifetimeSpec == FaultInit /\ [][LifetimeNext]_vars

(* ------------- lending and returning on the In-Memory backend ---------- *)
\* Users and items are added to an empty In-Memory store; after that only
\* borrowItem and returnItem are called, one call at a time.
LendingInit ==
  /\ backend = "InMemory"
  /\ store = EmptyStore
  /\ counter = 0
  /\ clock = 0
  /\ outbox = <<>>
  /\ latest = EmptyStore.mem
  /\ persisted = EmptyStore.file
  /\ heap = EmptyObjects
  /\ remote = NewRemote
  /\ threads = NoThreads
  /\ calls = <<>>

LendingNext ==
  \/ AddUser
  \/ AddBook
  \/ BorrowItem
  \/ ReturnItem
  \/ Tick

LendingSpec == LendingInit /\ [][LendingNext]_vars

(* ---------------- the statement layer of the Remote backend ------------ *)
\* A statement s has s.params, for each parameter marker bound so far the
\* buffer SQLBindParameter was given, and s.static_int_val, the static int of
\* bindInt.  SQLExecute reads the buffers when it runs: the text of a string
\* the caller still holds, whatever is found where a temporary string was,
\* and the present value of static_int_val.
NewStatement(static_int_val) == [params |-> <<>>, static_int_val |-> static_int_val]

bindString(s, param_index, value) ==
  [s EXCEPT !.params = MapPut(@, param_index, [buffer |-> "caller", text |-> value])]

\* bindString(param_index, "Book"): the std::string made of the literal ends
\* with the call
bindStringTemporary(s, param_index, value) ==
  [s EXCEPT !.params = MapPut(@, param_index, [buffer |-> "temporary", text |-> value])]

bindInt(s, param_index, value) ==
  [s EXCEPT !.static_int_val = value,
            !.params = MapPut(@, param_index, [buffer |-> "static_int_val"])]

\* the values SQLExecute sends; found is what it reads from a buffer that
\* is no longer alive
executeUpdate(s, found) ==
  [k \in DOMAIN s.params |->
     IF s.params[k].buffer = "static_int_val" THEN s.static_int_val
     ELSE IF s.params[k].buffer = "temporary" THEN found
     ELSE s.params[k].text]

\* db has the tables Authors and LibraryItems, keyed by id, and the static int
NewDatabase == [authors |-> <<>>, items |-> <<>>, static_int_val |-> 0]

Db_saveAuthor(db, author) == [db EXCEPT !.authors = MapPut(@, author.id, author.name)]

\* MERGE INTO LibraryItems with the seven values bound
MsSql_saveLibraryItem(db, book, found) ==
  LET s1 == bindString(NewStatement(db.static_int_val), 1, book.id)
      s2 == bindStringTemporary(s1, 2, <<"Book">>)
      s3 == bindString(s2, 3, book.title)
      s4 == bindString(s3, 4, book.author.id)
      s5 == bindString(s4, 5, book.isbn)
      s6 == bindInt(s5, 6, book.year)
      s7 == bindInt(s6, 7, StatusInt(book.status))
      sent == executeUpdate(s7, found)
  IN [db EXCEPT !.items = MapPut(@, sent[1],
                            [type |-> sent[2], title |-> sent[3], author |-> sent[4],
                             isbn |-> sent[5], year |-> sent[6], status |-> sent[7]]),
                !.static_int_val = s7.static_int_val]

\* SELECT ... WHERE ItemId = ?: a row that is no Book gives nullopt, and the
\* exception of the Book constructor is thrown again as OperationFailed
MsSql_loadLibraryItem(db, item_id) ==
  LET row_opt == MapFind(db.items, item_id) IN
  IF row_opt = None THEN [res |-> "ok", ret |-> None]
  ELSE LET row == row_opt[1]
           author_opt == MapFind(db.authors, row.author)
           author == IF author_opt = None THEN NoAuthor
                     ELSE [id |-> row.author, name |-> author_opt[1]]
       IN IF row.type # <<"Book">> THEN [res |-> "ok", ret |-> None]
          ELSE IF ~BookValid(item_id, row.title, author, row.isbn, row.year)
          THEN [res |-> "OperationFailed", ret |-> None]
          ELSE [res |-> "ok",
                ret |-> Some(Book(item_id, row.title, author, row.isbn, row.year,
                                  StatusOf(row.status)))]

\* A client saving authors and books through the statement layer; every
\* ODBC call succeeds.
BookYears == {1, 2}
FoundTexts == {<<"Book">>, <<"?">>}

StatementInit ==
  /\ backend = "Remote"
  /\ store = EmptyStore
  /\ counter = 0
  /\ clock = 0
  /\ outbox = <<>>
  /\ latest = EmptyStore.mem
  /\ persisted = EmptyStore.file
  /\ heap = EmptyObjects
  /\ remote = NewDatabase
  /\ threads = NoThreads
  /\ calls = <<>>

StatementSaveAuthor ==
  /\ remote' = Db_saveAuthor(remote, [id |-> <<"a1">>, name |-> <<"Herbert">>])
  /\ UNCHANGED <<backend, store, counter, clock, outbox, latest, persisted, heap,
                 threads, calls>>

StatementSaveItem ==
  \E i \in ItemIds : \E year \in BookYears : \E status \in StatusSet :
    \E found \in FoundTexts :
      /\ remote' = MsSql_saveLibraryItem(
                     remote,
                     Book(i, <<"Dune">>, [id |-> <<"a1">>, name |-> <<"Herbert">>],
                          <<"isbn">>, year, status),
                     found)
      /\ UNCHANGED <<backend, store, counter, clock, outbox, latest, persisted, heap,
                     threads, calls>>

StatementNext ==
  \/ StatementSaveAuthor
  \/ StatementSaveItem

StatementSpec == StatementInit /\ [][StatementNext]_vars

(* --------------- the Caching backend: object identity ------------------ *)
\* The bulk load seen with the identity of its objects: heap is the memory
\* store of the Caching backend.  Every author loadAllAuthors returns is an
\* Author of its own, made by make_shared.
RECURSIVE Objects_saveAuthors(_, _)
Objects_saveAuthors(m, authors) ==
  IF authors = <<>> THEN m
  ELSE LET at == NewSlot(m.objs)
           made == [m EXCEPT !.objs[at] = AuthorObject(Head(authors).id,
                                                       Head(authors).name)]
       IN Objects_saveAuthors(InMemory_saveAuthor(made, at), Tail(authors))

\* FilePersistenceService::loadAllLibraryItems: for each row, the Author
\* that loadAuthor makes and the Book constructed with it
RECURSIVE Objects_loadAllLibraryItems(_, _, _)
Objects_loadAllLibraryItems(m, books, items_from_file) ==
  IF books = <<>> THEN [m |-> m, ret |-> items_from_file]
  ELSE LET book == Head(books)
           author_at == NewSlot(m.objs)
           with_author == [m EXCEPT !.objs[author_at] =
                             AuthorObject(book.author.id, book.author.name)]
           book_at == NewSlot(with_author.objs)
           with_book == [with_author EXCEPT !.objs[book_at] =
                           BookObject(book.id, book.title, author_at, book.status)]
       IN Objects_loadAllLibraryItems(with_book, Tail(books),
                                      Append(items_from_file, book_at))

\* for (item_ptr : items_from_file) m_memory_store->saveLibraryItem(item_ptr.get())
RECURSIVE Objects_saveItems(_, _)
Objects_saveItems(m, items_from_file) ==
  IF items_from_file = <<>> THEN m
  ELSE Objects_saveItems(InMemory_saveLibraryItem(m, Head(items_from_file)),
                         Tail(items_from_file))

\* loadAllFromFileToMemory for authors and items; the Books of
\* items_from_file are destroyed when the function returns
Objects_loadAllFromFileToMemory(st) ==
  LET authors == Objects_saveAuthors(EmptyObjects, loadAllAuthors("File", st))
      loaded == Objects_loadAllLibraryItems(authors, loadAllLibraryItems("File", st), <<>>)
      saved == Objects_saveItems(loaded.m, loaded.ret)
      gone == {loaded.ret[k] : k \in 1..Len(loaded.ret)}
  IN [saved EXCEPT !.objs = [k \in DOMAIN saved.objs |->
                               IF k \in gone THEN FreeSlot ELSE saved.objs[k]]]

\* A data directory is written through a FilePersistenceService, then a
\* CachingFilePersistenceService is constructed over it and its caller
\* loads authors and items and renames the authors it has in hand.
CachedInit ==
  /\ backend = "File"
  /\ store = EmptyStore
  /\ counter = 0
  /\ clock = 0
  /\ outbox = <<>>
  /\ latest = EmptyStore.mem
  /\ persisted = EmptyStore.file
  /\ heap = EmptyObjects
  /\ remote = NewRemote
  /\ threads = NoThreads
  /\ calls = <<>>

WriteAuthorFile ==
  /\ backend = "File"
  /\ \E n \in AuthorNames :
       CommitStore(saveAuthor("File", store, [id |-> <<"a1">>, name |-> n]))

WriteItemFile ==
  /\ backend = "File"
  /\ \E t \in Titles : \E s \in HeldStatuses :
       CommitStore(saveLibraryItem("File", store,
                     Book(<<"b1">>, t, [id |-> <<"a1">>, name |-> <<"Ken">>],
                          <<"isbn">>, 1, s)))

CachingConstruct ==
  /\ backend = "File"
  /\ backend' = "Caching"
  /\ store' = loadAllFromFileToMemory(store)
  /\ heap' = Objects_loadAllFromFileToMemory(store)
  /\ UNCHANGED <<counter, clock, outbox, latest, persisted, remote, threads, calls>>

CachingLoadAuthor == backend = "Caching" /\ LoadAuthorObject

CachingLoadItem == backend = "Caching" /\ LoadItemObject

CachingRenameAuthor == backend = "Caching" /\ RenameAuthor

CachingDropItem == backend = "Caching" /\ DropObject

CachingChangeItem == backend = "Caching" /\ ChangeBook

\* item->getAuthor()->setName(n) on an item the caller has loaded
CachingRenameCarried ==
  /\ backend = "Caching"
  /\ \E p \in Held("Book") : \E n \in AuthorNames :
       SetHeap(Author_setName(heap, heap.objs[p].author, n))

CachedNext ==
  \/ WriteAuthorFile
  \/ WriteItemFile
  \/ CachingConstruct
  \/ CachingLoadAuthor
  \/ CachingLoadItem
  \/ CachingRenameAuthor
  \/ CachingDropItem
  \/ CachingChangeItem
  \/ CachingRenameCarried

CachedSpec == CachedInit /\ [][CachedNext]_vars

(* --------------------------- what is stored ---------------------------- *)
\* The content of a store read off its representation (the maps, the rows of
\* the files), not through the load operations of the backend.

\* the instant a "%Y-%m-%d %H:%M:%S" text denotes
TextInstant(text) ==
  stoi(<<text[1]>>) * TicksPerDay + stoi(<<text[3]>>) * SubPerSec

\* the loan record a row of loans.csv was written from, to the second
RowLoan(f) ==
  [id |-> f[1], item |-> f[2], user |-> f[3], loan |-> TextInstant(f[4]),
   due |-> TextInstant(f[5]),
   ret |-> IF Len(f) >= 6 /\ f[6] # <<>> THEN TextInstant(f[6]) ELSE NoDate]

SavedLoans(b, st) ==
  IF b = "File"
  THEN LET rows == readCsvFile(st.file.loans) IN {RowLoan(rows[k]) : k \in 1..Len(rows)}
  ELSE {st.mem.loans[k] : k \in DOMAIN st.mem.loans}

SavedUsers(b, st) ==
  IF b = "File"
  THEN LET rows == readCsvFile(st.file.users) IN {rows[k][1] : k \in 1..Len(rows)}
  ELSE DOMAIN st.mem.users

\* what the store keeps of item item_id: None when it keeps nothing
SavedItem(b, st, item_id) ==
  IF b = "File"
  THEN SelectSeq(readCsvFile(st.file.items), LAMBDA f : f[1] = item_id)
  ELSE MapFind(st.mem.items, item_id)

SavedStatus(b, st, item_id) ==
  LET kept == SavedItem(b, st, item_id) IN
  IF kept = None THEN "none"
  ELSE IF b = "File" THEN StatusOf(stoi(kept[1][7])) ELSE kept[1].status

\* the saved loans of item_id to user_id that have no return date
ActiveLoans(b, st, user_id, item_id) ==
  {x \in SavedLoans(b, st) : x.user = user_id /\ x.item = item_id /\ x.ret = NoDate}

(* ------------------------------ properties ----------------------------- *)
\* C1: for an existing user u and an existing AVAILABLE item i (that u does
\* not already hold), on every backend, borrowItem(u, i) followed by
\* returnItem(u, i) both succeed, leave i AVAILABLE and leave the loan record
\* the borrow created with a return date that is set and >= its loan date.
C1_BorrowThenReturn ==
  \A u \in UserIds : \A i \in ItemIds :
    ( /\ counter < MaxLoans
      /\ u \in SavedUsers(backend, store)
      /\ SavedStatus(backend, store, i) = "AVAILABLE"
      /\ ActiveLoans(backend, store, u, i) = {} ) =>
      LET b == borrowItem(backend, store, counter, clock, u, i) IN
      \A t \in clock..MaxClock :
        LET r == returnItem(backend, b.st, b.counter, t, u, i)
            made == {x \in SavedLoans(backend, r.st) : x.id = generateLoanRecordId(counter)}
        IN /\ b.res = "ok"
           /\ r.res = "ok"
           /\ SavedStatus(backend, r.st, i) = "AVAILABLE"
           /\ made # {}
           /\ \A x \in made : x.ret # NoDate /\ x.ret >= x.loan

\* C2 as stated: borrowItem on an existing item whose status is BORROWED,
\* RESERVED or MAINTENANCE fails with OperationFailed whoever the caller
\* names as user, and changes neither the store nor the id counter.
C2_AnyCallerRefused ==
  \A u \in UserIds : \A i \in ItemIds :
    SavedStatus(backend, store, i) \in {"BORROWED", "RESERVED", "MAINTENANCE"} =>
      LET out == borrowItem(backend, store, counter, clock, u, i) IN
      out.res = "OperationFailed" /\ out.st = store /\ out.counter = counter

\* C2 for an existing user: borrowItem by an existing user on an existing
\* item whose status is BORROWED, RESERVED or MAINTENANCE fails with
\* OperationFailed; no loan record is saved, the item's status is unchanged
\* and no loan id is consumed.
C2_UnavailableItemRefused ==
  \A u \in UserIds : \A i \in ItemIds :
    ( /\ u \in SavedUsers(backend, store)
      /\ SavedStatus(backend, store, i) \in {"BORROWED", "RESERVED", "MAINTENANCE"} ) =>
      LET out == borrowItem(backend, store, counter, clock, u, i) IN
      out.res = "OperationFailed" /\ out.st = store /\ out.counter = counter

\* an existing user is refused a reserved item while loans are on record
C2_Witness ==
  \E u \in UserIds : \E i \in ItemIds :
    /\ u \in SavedUsers(backend, store)
    /\ SavedStatus(backend, store, i) = "RESERVED"
    /\ SavedLoans(backend, store) # {}
    /\ counter > 0
    /\ borrowItem(backend, store, counter, clock, u, i).res = "OperationFailed"

\* C3: after a successful borrowItem(u, i), with no returnItem in between (the
\* next call at once, or after a status update of i), a second
\* borrowItem(u, i) fails with OperationFailed and exactly one loan record
\* with no return date is kept for (u, i).
C3_SecondBorrowRefused ==
  \A u \in UserIds : \A i \in ItemIds :
    LET first == borrowItem(backend, store, counter, clock, u, i) IN
    (counter < MaxLoans /\ first.res = "ok") =>
      \A between \in {first.st} \cup
                     {updateItemStatus(backend, first.st, i, s).st : s \in StatusSet} :
        LET second == borrowItem(backend, between, first.counter, clock, u, i) IN
        /\ second.res = "OperationFailed"
        /\ Cardinality(ActiveLoans(backend, second.st, u, i)) = 1

\* C4: a successful borrowItem(u, i) adds exactly one loan record, with item
\* i, user u, no return date and due date = loan date + LoanDays days, sets
\* the status of i to BORROWED, returns that record and leaves every other
\* loan record and every other item as it was.
C4_BorrowEffect ==
  \A u \in UserIds : \A i \in ItemIds :
    LET out == borrowItem(backend, store, counter, clock, u, i)
        before == SavedLoans(backend, store)
        after == SavedLoans(backend, out.st)
    IN (counter < MaxLoans /\ out.res = "ok") =>
         /\ before \subseteq after
         /\ Cardinality(after \ before) = 1
         /\ \A x \in after \ before :
              /\ x.item = i /\ x.user = u /\ x.ret = NoDate
              /\ x.loan = clock
              /\ x.due = x.loan + LoanDays * TicksPerDay
              /\ out.ret = Some(x)
         /\ SavedStatus(backend, out.st, i) = "BORROWED"
         /\ \A j \in ItemIds \ {i} :
              SavedItem(backend, out.st, j) = SavedItem(backend, store, j)

\* the second loan has just been made: it is open, its item is BORROWED and
\* the first loan is still on record
C4_Witness ==
  /\ counter = 2
  /\ Cardinality(SavedLoans(backend, store)) = 2
  /\ \E x \in SavedLoans(backend, store) :
       /\ x.id = generateLoanRecordId(counter - 1)
       /\ x.ret = NoDate
       /\ x.loan = clock
       /\ SavedStatus(backend, store, x.item) = "BORROWED"

\* C5: borrowItem looks the user up before the item: an unknown user gets
\* NotFound whatever the item, a known user with an unknown item gets
\* NotFound, and in both cases nothing is saved and no status changes.
C5_UnknownUserOrItem ==
  \A u \in UserIds : \A i \in ItemIds :
    LET out == borrowItem(backend, store, counter, clock, u, i) IN
    ( \/ u \notin SavedUsers(backend, store)
      \/ SavedItem(backend, store, i) = None ) =>
      out.res = "NotFound" /\ out.st = store /\ out.counter = counter

\* an unknown user asks for a reserved item while another user is known and
\* a loan is on record
C5_Witness ==
  \E u \in UserIds : \E i \in ItemIds :
    /\ u \notin SavedUsers(backend, store)
    /\ SavedUsers(backend, store) # {}
    /\ SavedStatus(backend, store, i) = "RESERVED"
    /\ SavedLoans(backend, store) # {}
    /\ borrowItem(backend, store, counter, clock, u, i).res = "NotFound"

C7_OverdueNotified ==
  LET sent == processOverdueItems(backend, store, counter, clock).sent
      overdue == {x \in SavedLoans(backend, store) :
                    x.ret = NoDate /\ x.due < TodayOf(clock)}
  IN /\ \A x \in overdue :
          Cardinality({k \in 1..Len(sent) :
                         sent[k].loan = x.id /\ sent[k].user = x.user}) = 1
     /\ \A k \in 1..Len(sent) : \E x \in overdue : x.id = sent[k].loan

C9_FileReturnsOpenLoan ==
  backend = "File" =>
    \A x \in SavedLoans(backend, store) :
      x.ret = NoDate =>
        LET Same(r) == r.id = x.id /\ r.item = x.item /\ r.user = x.user /\ r.ret = NoDate
            Has(loans) == \E k \in 1..Len(loans) : Same(loans[k])
            one == loadLoanRecord(backend, store, x.id)
        IN /\ one # None
           /\ Same(one[1])
           /\ Has(loadAllLoanRecords(backend, store))
           /\ Has(loadLoanRecordsByUserId(backend, store, x.user))
           /\ Has(loadLoanRecordsByItemId(backend, store, x.item))

\* C10: through the File backend the loan date, due date and return date of
\* every loaded loan record are the saved instants truncated to whole
\* seconds, which are the instants the record's row spells out.
C10_DatesKeepSeconds ==
  backend = "File" =>
    LET loaded == loadAllLoanRecords(backend, store) IN
    \A k \in 1..Len(loaded) :
      \E x \in SavedLoans(backend, store) :
        /\ x.id = loaded[k].id
        /\ loaded[k].loan = x.loan
        /\ loaded[k].due = x.due
        /\ loaded[k].ret = x.ret

\* what a load of the one item, and of the one loan record, copies
StoredItem(m) ==
  IF <<"b1">> \in DOMAIN m.m_items THEN Some(m.objs[m.m_items[<<"b1">>]]) ELSE None

StoredLoan(m) ==
  IF ObjectLoanId \in DOMAIN m.m_loan_records
  THEN Some(m.objs[m.m_loan_records[ObjectLoanId]])
  ELSE None

\* every change the caller can make to the object p it has in hand
ChangesOf(m, p) ==
  IF m.objs[p].kind = "Book"
  THEN {Book_setTitle(m, p, t) : t \in Titles}
       \cup {Book_setAvailabilityStatus(m, p, s) : s \in HeldStatuses}
  ELSE IF m.objs[p].kind = "Loan"
  THEN {LoanRecord_setDueDate(m, p, d) : d \in ObjectDates}
       \cup {LoanRecord_setReturnDate(m, p, d) : d \in ObjectDates}
  ELSE {m}

\* C11: in the In-Memory backend no change of title or status made to a
\* Book the caller has in hand (the original it saved or a loaded one), and
\* no change of dates made to a LoanRecord it has in hand, changes what a
\* later load of the item or of the loan record returns.
C11_LoadsAreCopies ==
  \A p \in heap.held :
    \A changed \in ChangesOf(heap, p) :
      /\ StoredItem(changed) = StoredItem(heap)
      /\ StoredLoan(changed) = StoredLoan(heap)

\* the caller holds a book whose title differs from the stored one and a
\* loan record whose due date differs from the stored one
C11_Witness ==
  /\ StoredItem(heap) # None
  /\ StoredLoan(heap) # None
  /\ \E p \in Held("Book") : heap.objs[p].title # StoredItem(heap)[1].title
  /\ \E q \in Held("Loan") : heap.objs[q].due # StoredLoan(heap)[1].due

\* the Book a load returns right after the caller's Book p was saved
SavedThenLoaded(m, p) ==
  LET after == InMemory_loadLibraryItem(InMemory_saveLibraryItem(m, p), m.objs[p].id)
  IN after.objs[CHOOSE q \in after.held : q \notin m.held]

\* C12: in the In-Memory backend loadAuthor(id) returns the very Author
\* object passed to the last saveAuthor for that id; after a rename of that
\* object, loadAuthor and loadAllAuthors show the new name, and so does the
\* author of a loaded item that was saved citing that object.
C12_AuthorIsShared ==
  \A id \in DOMAIN heap.given :
    LET passed == heap.given[id] IN
    /\ InMemory_loadAuthor(heap, id) = passed
    /\ \A n \in AuthorNames :
         LET renamed == Author_setName(heap, passed, n) IN
         /\ renamed.objs[InMemory_loadAuthor(renamed, id)].name = n
         /\ \E a \in InMemory_loadAllAuthors(renamed) :
              renamed.objs[a].id = id /\ renamed.objs[a].name = n
         /\ \A p \in Held("Book") :
              ( /\ heap.objs[p].author = passed
                /\ Cardinality({k \in 1..MaxObjects : heap.objs[k] = FreeSlot}) >= 2 ) =>
                renamed.objs[SavedThenLoaded(renamed, p).author].name = n

\* two Author objects with the same id and different names are in hand, the
\* one passed to saveAuthor is the author of the stored item
C12_Witness ==
  /\ <<"a1">> \in DOMAIN heap.given
  /\ StoredItem(heap) # None
  /\ StoredItem(heap)[1].author = heap.given[<<"a1">>]
  /\ \E a \in Held("Author") :
       /\ a # heap.given[<<"a1">>]
       /\ heap.objs[a].name # heap.objs[heap.given[<<"a1">>]].name

\* the ids a client asks for: the ids it saves and one more item and loan id
AllIds ==
  [authors |-> {<<"a1">>}, users |-> {<<"u1">>, <<"u2">>},
   items |-> {<<"b1">>, <<"b2">>},
   loans |-> {<<"loan_", "1">>, <<"loan_", "2">>}]

\* the first fields of the records of a csv file
RowIds(lines) ==
  LET rows == readCsvFile(lines) IN {rows[k][1] : k \in 1..Len(rows)}

\* the ids a store keeps something for, by entity type
StoredIds(b, st) ==
  IF b = "File"
  THEN [authors |-> RowIds(st.file.authors), users |-> RowIds(st.file.users),
        items |-> RowIds(st.file.items), loans |-> RowIds(st.file.loans)]
  ELSE [authors |-> DOMAIN st.mem.authors, users |-> DOMAIN st.mem.users,
        items |-> DOMAIN st.mem.items, loans |-> DOMAIN st.mem.loans]

\* the result of every read of the contract
Reads(b, st) ==
  [author |-> [id \in AllIds.authors |-> loadAuthor(b, st, id)],
   user |-> [id \in AllIds.users |-> loadUser(b, st, id)],
   item |-> [id \in AllIds.items |-> loadLibraryItem(b, st, id)],
   loan |-> [id \in AllIds.loans |-> loadLoanRecord(b, st, id)],
   authors |-> loadAllAuthors(b, st),
   users |-> loadAllUsers(b, st),
   items |-> loadAllLibraryItems(b, st),
   loans |-> loadAllLoanRecords(b, st),
   byUser |-> [id \in AllIds.users |-> loadLoanRecordsByUserId(b, st, id)],
   byItem |-> [id \in AllIds.items |-> loadLoanRecordsByItemId(b, st, id)]]

ItemKey(i) == [i EXCEPT !.author = @.id]

\* a collection of entities holds exactly one entry for each id of ids
OnePerId(entities, ids) ==
  /\ {entities[k].id : k \in 1..Len(entities)} = ids
  /\ Len(entities) = Cardinality(ids)

\* C15: save is an upsert keyed by id: after any sequence of saves and
\* deletes, the load of all entities of a type holds one entry for each id
\* whose last operation was a save and no other entry, and the load by id
\* returns the value most recently saved for that id.
C15_SaveIsUpsert ==
  LET got == Reads(backend, store) IN
  /\ OnePerId(got.authors, DOMAIN latest.authors)
  /\ OnePerId(got.users, DOMAIN latest.users)
  /\ OnePerId(got.items, DOMAIN latest.items)
  /\ OnePerId(got.loans, DOMAIN latest.loans)
  /\ \A id \in DOMAIN latest.authors : got.author[id] = Some(latest.authors[id])
  /\ \A id \in DOMAIN latest.users : got.user[id] = Some(latest.users[id])
  /\ \A id \in DOMAIN latest.items :
       /\ got.item[id] # None
       /\ ItemKey(got.item[id][1]) = ItemKey(latest.items[id])
  /\ \A id \in DOMAIN latest.loans : got.loan[id] = Some(latest.loans[id])

\* C16: on the Caching backend, from its construction to the next
\* persistAllToFile and between two of them, the csv files stay as the
\* construction or the last persistAllToFile left them, and every read
\* returns what the In-Memory store holds, whatever the files hold.
C16_CacheOnly ==
  backend = "Caching" =>
    /\ store.file = persisted
    /\ Reads(backend, store) = Reads("InMemory", [store EXCEPT !.file = EmptyStore.file])

\* the In-Memory store of the Caching backend holds other ids than its files
\* after a persistAllToFile that wrote something
C16_Witness ==
  /\ backend = "Caching"
  /\ persisted # EmptyStore.file
  /\ StoredIds("File", store).users # StoredIds("InMemory", store).users
  /\ StoredIds("File", store).items # StoredIds("InMemory", store).items

\* C17: after persistAllToFile the csv files hold exactly the entities of
\* the In-Memory store; no entity absent from memory remains in the files.
C17_PersistMirrorsMemory ==
  backend = "Caching" =>
    LET after == persistAllToFile(store) IN
    StoredIds("File", after) = StoredIds("InMemory", after)

\* C18: a Caching backend constructed over the directory of a process that
\* ended shows the entities the files held at the last persistAllToFile, or
\* at the construction when there was none, and nothing of what was saved,
\* updated or deleted since.
C18_RestartDropsChanges ==
  backend = "Caching" =>
    loadAllFromFileToMemory(store).mem
      = loadAllFromFileToMemory([mem |-> EmptyStore.mem, file |-> persisted]).mem

\* after a persistAllToFile that wrote something, the memory store has a
\* user and a loan record that a new construction would not show, and lacks
\* an author that it would show
C18_Witness ==
  /\ backend = "Caching"
  /\ persisted # EmptyStore.file
  /\ LET again == loadAllFromFileToMemory(store).mem IN
     /\ DOMAIN store.mem.users \ DOMAIN again.users # {}
     /\ DOMAIN store.mem.loans \ DOMAIN again.loans # {}
     /\ DOMAIN again.authors \ DOMAIN store.mem.authors # {}

\* C19: when a Remote backend is destroyed and the rollback it issues
\* succeeds, whatever begin, commit, rollback and failed operations came
\* before, the session with the server is ended, no work of an unfinished
\* transaction is left on it, and that work was not committed.
C19_DestroyLeavesNoTransaction ==
  remote.alive =>
    \A rc \in OdbcOutcomes :
      (rc.endtran /\ rc.attr) =>
        LET gone == MsSql_destroy(remote, rc) IN
        /\ ~gone.session
        /\ gone.pending = {}
        /\ gone.deleted = {}
        /\ gone.committed = remote.committed

\* the backend holds a transaction to be open on a session in manual-commit
\* mode
TransactionOpen(r) == r.m_in_transaction /\ r.session /\ ~r.autocommit

\* C20: beginTransaction while a transaction is open is rejected with an
\* error and changes nothing, so the open transaction is neither committed
\* nor rolled back; commitTransaction makes nothing durable unless a
\* transaction is open.
C20_NotNested ==
  remote.alive =>
    \A rc \in OdbcOutcomes :
      /\ TransactionOpen(remote) =>
           LET again == MsSql_beginTransaction(remote, rc) IN
           again.res # "ok" /\ again.r = remote
      /\ ~TransactionOpen(remote) =>
           MsSql_commitTransaction(remote, rc).r.committed = remote.committed

\* an ODBC call made by an operation on r returned an error: the connect
\* calls when there is no connection yet, then the statement calls, then,
\* for a query, the fetch and the reads of the columns of a row
ConnectFailed(r, rc) ==
  ~(r.m_db_connection /\ r.m_is_connected) /\ ~(rc.connect /\ rc.attr)

UpdateFailed(r, rc) == ConnectFailed(r, rc) \/ ~rc.exec

QueryFailed(r, rc, rows) ==
  \/ UpdateFailed(r, rc)
  \/ ~rc.fetch
  \/ rows # {} /\ ~(rc.probe /\ rc.getdata)

\* C21: in the Remote backend a save, a load by id, a load of all entities
\* or a delete during which an ODBC call fails throws OperationFailed: it
\* neither throws the exception of the protocol layer nor returns normally.
C21_FailuresAreOperationFailed ==
  remote.alive =>
    \A rc \in OdbcOutcomes :
      /\ \A id \in RemoteAuthorIds :
           /\ UpdateFailed(remote, rc) =>
                MsSql_saveAuthor(remote, id, rc).res = "OperationFailed"
           /\ UpdateFailed(remote, rc) =>
                MsSql_deleteAuthor(remote, id, rc).res = "OperationFailed"
           /\ QueryFailed(remote, rc, VisibleAuthors(remote) \cap {id}) =>
                MsSql_loadAuthor(remote, id, rc).res = "OperationFailed"
      /\ QueryFailed(remote, rc, VisibleAuthors(remote)) =>
           MsSql_loadAllAuthors(remote, rc).res = "OperationFailed"


\* C22: calls made concurrently by several threads to one In-Memory backend
\* are serialized by its lock: once all of them have returned, the stored
\* loan records and every returned value are those of the same calls made
\* one after the other in some order that keeps a call that had returned
\* ahead of a call entered later.
C22_CallsAreSerialized ==
  (\A t \in Threads : threads[t].pc = "idle") =>
    \E p \in Orders(Len(calls)) :
      /\ store = StoreAfter(p, Len(calls))
      /\ \A k \in 1..Len(calls) :
           calls[p[k]].ret = CallAlone(StoreAfter(p, k - 1), calls[p[k]]).ret

\* two calls were inside the backend together, one waiting for the lock the
\* other held, and both have returned
C22_Witness ==
  /\ \A t \in Threads : threads[t].pc = "idle"
  /\ Len(calls) >= 3
  /\ calls[1].op = "save" /\ calls[2].op = "loadAll" /\ calls[3].op = "delete"
  /\ calls[2].during = {1}
  /\ calls[2].ret # <<>>
  /\ store.mem.loans # <<>>

\* C23: two threads saving two users with different ids at the same time
\* through one File backend: once both calls have returned, the file holds
\* a record for each of the two ids.
C23_BothRecordsPresent ==
  \A i, j \in 1..Len(calls) :
    (/\ i \in calls[j].during
     /\ calls[i].arg # calls[j].arg
     /\ calls[i].ret = Void /\ calls[j].ret = Void)
      => {calls[i].arg, calls[j].arg} \subseteq RowIds(store.file.users)

\* C24: the Remote backend serializes all statement execution through its
\* one cached connection: at no time do two threads have a statement
\* prepared and not yet executed on that connection.
C24_OneStatementAtATime == Cardinality(OnConnection) <= 1

\* C25: within one LoanService the loan ids are "loan_" followed by the value
\* of a counter that only grows, and no two borrowItem calls that succeeded,
\* on the same thread or interleaved on different threads, got the same id.
C25_LoanIdsAreDistinct ==
  /\ \A k \in Borrowed :
       \E n \in 1..counter : calls[k].ret[2] = <<"loan_">> \o to_string(n)
  /\ \A j, k \in Borrowed : j # k => calls[j].ret[2] # calls[k].ret[2]
  /\ \A j, k \in Borrowed :
       (j < k /\ j \notin calls[k].during) => LoanIdLess(calls[j].ret[2], calls[k].ret[2])

\* two borrowItem calls that were inside the service together both succeeded
C25_Witness ==
  \E j, k \in Borrowed : j \in calls[k].during /\ calls[j].thread # calls[k].thread

\* C26: every LoanRecord obtained through the constructor, setDueDate and
\* setReturnDate has its due date at or after its loan date and, when it has
\* a return date, that date at or after its loan date; a call whose date
\* would break this raises InvalidArgument and leaves the record as it was.
C26_DatesAreOrdered ==
  \A k \in 1..Len(calls) :
    LET c == calls[k]
        breaks == \/ c.op = "LoanRecord" /\ c.arg.due < c.arg.loan
                  \/ c.op \in {"setDueDate", "setReturnDate"} /\ c.arg < c.before[1].loan
    IN /\ c.after # None =>
            /\ c.after[1].due >= c.after[1].loan
            /\ c.after[1].ret # NoDate => c.after[1].ret >= c.after[1].loan
       /\ breaks => c.ret = "InvalidArgument" /\ c.after = c.before

\* the record held has a return date after its loan date, and a call of
\* setReturnDate with a date before its loan date has just been refused
C26_Witness ==
  /\ Len(calls) = 1
  /\ calls[1].op = "setReturnDate" /\ calls[1].ret = "InvalidArgument"
  /\ calls[1].arg < calls[1].before[1].loan
  /\ calls[1].after[1].ret > calls[1].after[1].loan
  /\ calls[1].after[1].due > calls[1].after[1].loan

\* the arguments a caller may pass, the invalid ones among them
ArgIds(ids) == ids \cup {<<>>}
ArgTexts == {<<>>, <<"x">>}
ArgYears == {-1, 0, 1}

\* C27: in the operations of UserService, CatalogService and LoanService an
\* invalid argument (an empty id, an empty name, an empty title or ISBN, a
\* year that is not positive) raises InvalidArgument before any storage
\* operation is invoked.
C27_ValidationComesFirst ==
  /\ \A u \in ArgIds(UserIds) : \A n \in ArgTexts :
       (u = <<>> \/ n = <<>>) =>
         /\ addUser(backend, store, u, n).res = "InvalidArgument"
         /\ Issued_addUser(backend, store, u, n) = <<>>
  /\ \A i \in ArgIds(ItemIds) : \A t, an, isbn \in ArgTexts :
     \A a \in ArgIds({<<"a1">>}) : \A y \in ArgYears :
       (i = <<>> \/ t = <<>> \/ a = <<>> \/ an = <<>> \/ isbn = <<>> \/ y <= 0) =>
         /\ addBook(backend, store, i, t, a, an, isbn, y).res = "InvalidArgument"
         /\ Issued_addBook(backend, store, i, t, a, an, isbn, y) = <<>>
  /\ \A s \in StatusSet :
       /\ updateItemStatus(backend, store, <<>>, s).res = "InvalidArgument"
       /\ Issued_updateItemStatus(backend, store, <<>>) = <<>>
  /\ \A u \in ArgIds(UserIds) : \A i \in ArgIds(ItemIds) :
       (u = <<>> \/ i = <<>>) =>
         /\ borrowItem(backend, store, counter, clock, u, i).res = "InvalidArgument"
         /\ Issued_borrowItem(backend, store, u, i) = <<>>
         /\ returnItem(backend, store, counter, clock, u, i).res = "InvalidArgument"
         /\ Issued_returnItem(backend, store, clock, u, i) = <<>>

\* C28: addUser with an id that is already stored and addBook with an item id
\* that is already stored fail with OperationFailed and leave the stored
\* users, items and authors exactly as they were.
C28_AddNeverOverwrites ==
  LET stored == StoredIds(backend, store) IN
  /\ \A u \in stored.users : \A n \in {<<"Ann">>, <<"Bob">>} :
       LET added == addUser(backend, store, u, n) IN
       added.res = "OperationFailed" /\ added.st = store
  /\ \A i \in stored.items : \A a \in {<<"a1">>, <<"a2">>} :
       LET added == addBook(backend, store, i, <<"Emma">>, a, <<"Austen">>,
                            <<"isbn">>, 1) IN
       added.res = "OperationFailed" /\ added.st = store

\* a user and an item are stored in the files
C28_Witness ==
  /\ StoredIds(backend, store).users # {}
  /\ StoredIds(backend, store).items # {}
  /\ backend = "File"

\* the records of the item file whose author id has no record in the author
\* file
ItemRowsWithoutAuthor(st) ==
  LET rows == readCsvFile(st.file.items) IN
  {rows[k] : k \in {k \in 1..Len(rows) :
                      /\ Len(rows[k]) = 7
                      /\ rows[k][4] # <<>>
                      /\ rows[k][4] \notin RowIds(st.file.authors)}}

\* C29: on the File backend an item whose recorded author id is absent from
\* the author file still loads, by id and in loadAll, as an item with no
\* author reference; it is not dropped.
C29_ItemLoadsWithoutAuthor ==
  backend = "File" =>
    \A fields \in ItemRowsWithoutAuthor(store) :
      LET by_id == loadLibraryItem(backend, store, fields[1])
          all == loadAllLibraryItems(backend, store) IN
      /\ by_id # None
      /\ by_id[1].author = NoAuthor
      /\ \E k \in 1..Len(all) : all[k].id = fields[1] /\ all[k].author = NoAuthor

\* the records of a csv file whose first field is id
RowsOf(lines, id) == SelectSeq(readCsvFile(lines), LAMBDA f : f # <<>> /\ f[1] = id)

\* the text has neither substitute character
NoPlaceholder(text) ==
  \A k \in 1..Len(text) : text[k] \notin {COMMA_PLACEHOLDER, QUOTE_PLACEHOLDER}

\* C30: on the File backend a text field with commas and double quotes in
\* it, and neither substitute character, is read back exactly equal, and
\* its record keeps its number of fields.
C30_TextReadsBackEqual ==
  (calls # <<>> /\ NoPlaceholder(calls[1].text)) =>
    LET c == calls[1] IN
    IF c.op = "saveUser"
    THEN /\ loadUser(backend, store, c.id) = Some(c.text)
         /\ RowsOf(store.file.users, c.id) = <<<<c.id, c.text>>>>
    ELSE /\ loadLibraryItem(backend, store, c.id) # None
         /\ loadLibraryItem(backend, store, c.id)[1].title = c.text
         /\ Len(RowsOf(store.file.items, c.id)) = 1
         /\ Len(RowsOf(store.file.items, c.id)[1]) = 7
         /\ RowsOf(store.file.items, c.id)[1][3] = c.text

\* a title made of a comma and a double quote has just been saved, and the
\* user file holds a record too
C30_Witness ==
  /\ calls # <<>>
  /\ calls[1].op = "saveLibraryItem"
  /\ calls[1].text = <<COMMA, QUOTE>>
  /\ RowsOf(store.file.users, <<"u1">>) # <<>>

\* C31: when the item-status write of borrowItem fails after the loan record
\* has been saved, borrowItem raises the error, the new loan record is kept
\* with no return date exactly as the save left it, and the item is still
\* AVAILABLE.
C31_BorrowIsNotAtomic ==
  \A u \in UserIds : \A i \in ItemIds :
    LET whole == borrowItemOn(backend, store, counter, clock, u, i, CsvFiles)
        out == borrowItemOn(backend, store, counter, clock, u, i, CsvFiles \ {"items"})
    IN (counter < MaxLoans /\ whole.res = "ok") =>
         /\ out.res = "OperationFailed"
         /\ out.st.file.loans = whole.st.file.loans
         /\ \E x \in SavedLoans(backend, out.st) :
              /\ x.id = generateLoanRecordId(counter)
              /\ x.item = i /\ x.user = u /\ x.ret = NoDate
         /\ SavedStatus(backend, out.st, i) = "AVAILABLE"

\* a borrow has failed at its status write: its record is kept open and its
\* item is AVAILABLE
C31_Witness ==
  /\ counter > 0
  /\ \E x \in SavedLoans(backend, store) :
       /\ x.id = generateLoanRecordId(counter - 1)
       /\ x.ret = NoDate
       /\ SavedStatus(backend, store, x.item) = "AVAILABLE"

\* C32: once a stored loan record has a return date, no later borrowItem,
\* returnItem or processOverdueItems call of the same LoanService changes any
\* of its fields, removes it or stores another record under its id.
C32_ClosedLoansNeverChange ==
  LET closed == {x \in SavedLoans(backend, store) : x.ret # NoDate}
      Kept(st) == \A x \in closed :
                    \A y \in SavedLoans(backend, st) : (y.id = x.id) = (y = x)
  IN /\ Kept(processOverdueItems(backend, store, counter, clock).st)
     /\ \A u \in UserIds : \A i \in ItemIds :
          /\ Kept(returnItem(backend, store, counter, clock, u, i).st)
          /\ counter < MaxLoans => Kept(borrowItem(backend, store, counter, clock, u, i).st)

\* an item was returned and has been borrowed again since: the closed record
\* and the open one are both on record
C32_Witness ==
  \E x \in SavedLoans(backend, store) : \E y \in SavedLoans(backend, store) :
    /\ x.ret # NoDate
    /\ y.ret = NoDate
    /\ y.item = x.item
    /\ y.user = x.user
    /\ y.loan > x.ret

\* C33: at no time does a user hold two loan records with no return date for
\* the same item, and of the borrowItem calls made for one (user, item), on
\* one thread or interleaved on two, at most one succeeds.
C33_OneActiveLoanPerUserAndItem ==
  /\ \A u \in UserIds : \A i \in ItemIds :
       Cardinality(ActiveLoans(backend, store, u, i)) <= 1
  /\ \A j, k \in Borrowed : calls[j].arg = calls[k].arg => j = k

\* C34: a returnItem call that raises NotFound found no loan record with no
\* return date for (user, item) and has changed no loan record, also when the
\* item was removed from the catalog while it was on loan (stated for the
\* backends that keep their records in memory).
C34_NotFoundChangesNoLoan ==
  \A u \in UserIds : \A i \in ItemIds :
    LET out == returnItem(backend, store, counter, clock, u, i) IN
    (backend # "File" /\ out.res = "NotFound") =>
      /\ ActiveLoans(backend, store, u, i) = {}
      /\ SavedLoans(backend, out.st) = SavedLoans(backend, store)

\* C35: the first successful borrowItem of a LoanService instance gets the id
\* "loan_1"; when the files already hold a record with that id, the call
\* replaces it by the new loan: the file has as many records as before, one
\* of them with id "loan_1", and the other records are as they were.
C35_FirstLoanReplacesStoredLoan ==
  \A u \in UserIds : \A i \in ItemIds :
    LET out == borrowItem(backend, store, counter, clock, u, i)
        before == readCsvFile(store.file.loans)
        after == readCsvFile(out.st.file.loans)
        held == {k \in 1..Len(before) : before[k][1] = <<"loan_", "1">>}
    IN (counter = 0 /\ out.res = "ok") =>
         /\ out.ret[1].id = <<"loan_", "1">>
         /\ held # {} =>
              /\ Len(after) = Len(before)
              /\ \A k \in 1..Len(before) :
                   IF k \in held
                   THEN /\ RowLoan(after[k]) = [out.ret[1] EXCEPT !.ret = NoDate]
                        /\ RowLoan(after[k]) # RowLoan(before[k])
                   ELSE after[k] = before[k]

\* the first loan of a second instance has taken the place of the record of
\* an item that is still lent
C35_Witness ==
  /\ counter = 1
  /\ \E i \in ItemIds :
       /\ SavedStatus(backend, store, i) = "BORROWED"
       /\ \A x \in SavedLoans(backend, store) : x.item # i
  /\ \E x \in SavedLoans(backend, store) :
       x.id = <<"loan_", "1">> /\ x.loan = clock

\* C40: in every reachable state of the Remote backend the in-transaction
\* flag of the service is true exactly when its Connection has a transaction
\* open, also after a commit or a rollback that failed part-way.
C40_FlagAgreesWithConnection ==
  remote.alive =>
    (remote.m_in_transaction <=> (remote.m_db_connection /\ remote.conn_in_transaction))

\* C38: from a store with no loan records, under borrowItem and returnItem
\* called one at a time on the In-Memory backend, every item has at most one
\* loan record with no return date, is BORROWED exactly when it has one, and
\* is AVAILABLE otherwise.
C38_StatusFollowsOpenLoan ==
  \A i \in ItemIds :
    LET open == {x \in SavedLoans(backend, store) : x.item = i /\ x.ret = NoDate} IN
    /\ Cardinality(open) <= 1
    /\ (SavedStatus(backend, store, i) = "BORROWED") = (open # {})
    /\ SavedStatus(backend, store, i) \in {"none", "AVAILABLE", "BORROWED"}
    /\ SavedStatus(backend, store, i) = "none" => open = {}

\* an item has been lent, returned and lent again, to another user
C38_Witness ==
  \E x \in SavedLoans(backend, store) : \E y \in SavedLoans(backend, store) :
    /\ x.ret # NoDate
    /\ y.ret = NoDate
    /\ y.item = x.item
    /\ y.user # x.user
    /\ SavedStatus(backend, store, y.item) = "BORROWED"

\* C39: under any sequence of service calls, removeItem and addBook among
\* them, an item with a loan record that has no return date is never
\* AVAILABLE.
C39_LentItemNeverAvailable ==
  \A x \in SavedLoans(backend, store) :
    x.ret = NoDate => SavedStatus(backend, store, x.item) # "AVAILABLE"

\* C36: through the Remote backend, a book saved with saveLibraryItem, its
\* author being on record, is returned by the following loadLibraryItem with
\* the publication year and the status it was saved with.
C36_YearAndStatusReadBack ==
  \A i \in ItemIds : \A year \in BookYears : \A status \in StatusSet :
    LET book == Book(i, <<"Dune">>, [id |-> <<"a1">>, name |-> <<"Herbert">>],
                     <<"isbn">>, year, status)
        loaded == MsSql_loadLibraryItem(
                    MsSql_saveLibraryItem(remote, book, <<"Book">>), i)
    IN <<"a1">> \in DOMAIN remote.authors =>
         /\ loaded.res = "ok"
         /\ loaded.ret # None
         /\ loaded.ret[1].year = year
         /\ loaded.ret[1].status = status

\* C37: in the Caching backend after the bulk load, the Author an item
\* carries is the Author object loadAuthor returns for that author id, so a
\* new name set through loadAuthor is the name seen through the item.
C37_LoadedItemSharesAuthor ==
  backend = "Caching" =>
    \A i \in DOMAIN heap.m_items :
      LET carried == heap.objs[heap.m_items[i]].author
          shared == InMemory_loadAuthor(heap, heap.objs[carried].id)
      IN shared # NullPtr =>
           /\ carried = shared
           /\ \A n \in AuthorNames :
                Author_setName(heap, shared, n).objs[carried].name = n

====
